---- MODULE Spec2Model ----
(***************************************************************************)
(* Planning state, marker/pairing model and undo/redo manager of the       *)
(* Foxhole artillery planner front end (crates/frontend).                  *)
(*                                                                         *)
(* Conventions.  Option<T> is a sequence of length at most one: None is    *)
(* <<>> and Some(x) is <<x>>.  A map-pixel position is a pair <<x, y>>.    *)
(* Indices stored in the state (pairings, selection) are the 0-based Rust  *)
(* indices; Vec element i is the sequence element i + 1.                   *)
(***************************************************************************)
EXTENDS Integers, Sequences, FiniteSets, TLC

\* ---------------------------------------------------------------------
\* Program constants
\* ---------------------------------------------------------------------

UNDO_LIMIT == 50

\* Zoom factors are held in hundredths: ZOOM_MIN is 1.0, ZOOM_MAX is 10.0.
ZOOM_MIN == 100

ZOOM_MAX == 1000

REMOVE_THRESHOLD == 60

\* ZOOM_STEP is 1.1 = ZOOM_STEP_NUM / ZOOM_STEP_DEN.
ZOOM_STEP_NUM == 11

ZOOM_STEP_DEN == 10

\* Pixels of pointer travel (mouse, touch) beyond which a press is a drag.
DRAG_THRESHOLD == 3

TOUCH_DRAG_THRESHOLD == 8

\* Map image size in pixels.
MAP_WIDTH_PX == 1024

MAP_HEIGHT_PX == 888

\* ---------------------------------------------------------------------
\* Bounds of the model
\* ---------------------------------------------------------------------

\* Longest marker list a placement may start from (per kind).
MaxMarkers == 2

\* Most snapshots (undo + redo) a run of Spec holds when an operation pushes.
MaxHistory == 2

\* The same bound for the runs of SpecEdit.
MaxEditHistory == 1

\* Most spotter placements in a run of SpecLong.
MaxPlacements == 52

\* SpecView: snapshots a run may push (each placement or removal pushes
\* one).
MaxViewHistory == 2

\* SpecView: presses, finger contacts and wheel notches in a run.
MaxGestures == 3

\* SpecLoad: plans the server holds, and snapshots a run may push.
MaxLoadPlans == 1

MaxLoadHistory == 2

\* SpecServer: plans the server holds.
MaxPlans == 2

\* ---------------------------------------------------------------------
\* Input domains
\* ---------------------------------------------------------------------

None == <<>>

Some(x) == <<x>>

\* Resolved click positions (map-image pixels).  The first two are 30 px
\* apart: within the snap/removal radius at zoom 1.0 (60 px), outside it at
\* zoom 2.0 (30 px, strict comparison).
Points == {<<100, 100>>, <<130, 100>>}

\* Zoom factors at which pointer events are resolved, in hundredths (1.0
\* and 2.0).
Zooms == {100, 200}

\* Weapon slugs offered by the selectors ("" is "-- Select Weapon --").
Slugs == {"", "mortar"}

\* Map file names of the catalog.
Maps == {"map-a", "map-b"}

\* Container sizes (width, height) in CSS pixels: a landscape one, whose
\* image (width x 888/1024) is taller than the container, and a portrait
\* one, where the image leaves the lower part of the container empty.
Rects == {<<800, 600>>, <<400, 800>>}

\* Pointer positions relative to the container.  The mouse is pressed at
\* the first or the second, which lies below the image in the portrait
\* container, and moves to a point 3 px away on both axes or to one 4 px
\* away.
MousePresses == {<<200, 300>>, <<200, 700>>}

MouseMoves == {<<200, 300>>, <<203, 297>>, <<204, 300>>}

\* The first finger comes down where the mouse does and moves 8 px or 9 px;
\* the second comes down 100 px or 10 px from the first and moves to 200 px
\* or to 10 px from it: finger-distance ratios of 2, 1/10, 20 and 10.
FirstTouches == {<<200, 300>>, <<200, 700>>}

FirstTouchMoves == {<<200, 300>>, <<200, 308>>, <<200, 309>>}

SecondTouches == {<<300, 300>>, <<210, 300>>}

SecondTouchMoves == {<<300, 300>>, <<400, 300>>, <<210, 300>>}

\* Where the wheel is turned.
WheelCursors == {<<200, 300>>}

Buttons == {"Primary", "Secondary"}

\* Wind compass buttons used by the model, and slider values.
WindDegs == {0}

WindStrengths == {0, 3}

Kinds == {"Gun", "Target", "Spotter"}

\* ---------------------------------------------------------------------
\* State
\* ---------------------------------------------------------------------

VARIABLES
    gun_positions,      \* Vec<(f64, f64)>
    target_positions,   \* Vec<(f64, f64)>
    spotter_positions,  \* Vec<(f64, f64)>
    gun_weapon_ids,     \* Vec<String>
    gun_target_indices, \* Vec<Option<usize>>
    wind_direction,     \* Option<f64>
    wind_strength,      \* u32
    selected_marker,    \* Option<SelectedMarker>
    placement_mode,     \* PlacementMode
    selected_weapon,    \* String
    selected_map,       \* String
    undo_stack,         \* Vec<PlanSnapshot>, top is the last element
    redo_stack,         \* Vec<PlanSnapshot>, top is the last element
    panicked,           \* a handler hit an out-of-range Vec::remove
    plan_id,            \* Option<String>: the plan the page was opened with
    view,               \* the local signals of MapView, its container rect,
                        \* the fingers on the screen and the number of
                        \* gestures begun so far (bookkeeping for a bound)
    plans,              \* the backend's plans table, in order of creation
    calc,               \* the firing_solutions signal and the _calc_effect
                        \* resource: its running task and whether a signal
                        \* it read was written since it last started
    query,              \* a calculate query of some client of the API: the
                        \* weapons the server loaded, the input object and
                        \* the answer once the server has given it
    grid                \* a call of format_grid_coord: its arguments and
                        \* the string it returned

vars == <<gun_positions, target_positions, spotter_positions, gun_weapon_ids,
          gun_target_indices, wind_direction, wind_strength, selected_marker,
          placement_mode, selected_weapon, selected_map, undo_stack,
          redo_stack, panicked, plan_id, view, plans, calc,
          query, grid>>

\* The signals of the Planner component as one record; handlers are
\* functions from such a record to the record after the handler returned.
St == [gun_positions |-> gun_positions,
       target_positions |-> target_positions,
       spotter_positions |-> spotter_positions,
       gun_weapon_ids |-> gun_weapon_ids,
       gun_target_indices |-> gun_target_indices,
       wind_direction |-> wind_direction,
       wind_strength |-> wind_strength,
       selected_marker |-> selected_marker,
       placement_mode |-> placement_mode,
       selected_weapon |-> selected_weapon,
       selected_map |-> selected_map,
       undo_stack |-> undo_stack,
       redo_stack |-> redo_stack,
       panicked |-> panicked,
       plan_id |-> plan_id]

ApplySignals(s) ==
    /\ gun_positions' = s.gun_positions
    /\ target_positions' = s.target_positions
    /\ spotter_positions' = s.spotter_positions
    /\ gun_weapon_ids' = s.gun_weapon_ids
    /\ gun_target_indices' = s.gun_target_indices
    /\ wind_direction' = s.wind_direction
    /\ wind_strength' = s.wind_strength
    /\ selected_marker' = s.selected_marker
    /\ placement_mode' = s.placement_mode
    /\ selected_weapon' = s.selected_weapon
    /\ selected_map' = s.selected_map
    /\ undo_stack' = s.undo_stack
    /\ redo_stack' = s.redo_stack
    /\ panicked' = s.panicked
    /\ plan_id' = s.plan_id

signals == <<gun_positions, target_positions, spotter_positions,
             gun_weapon_ids, gun_target_indices, wind_direction,
             wind_strength, selected_marker, placement_mode, selected_weapon,
             selected_map, undo_stack, redo_stack, panicked, plan_id>>

\* A handler of the view signals only.
ApplyView(v) == view' = v /\ UNCHANGED <<signals, plans, calc, query, grid>>

\* A pointer handler: view signals and Planner signals.
ApplyPointer(s, v) ==
    ApplySignals(s) /\ view' = v /\ UNCHANGED <<plans, calc, query, grid>>

\* A handler of the Planner signals: the view and the backend stay put.
Apply(s) == ApplySignals(s) /\ UNCHANGED <<view, plans, calc, query, grid>>

\* ---------------------------------------------------------------------
\* Vec helpers
\* ---------------------------------------------------------------------

\* Vec::remove(index) for an index in range.
VecRemove(v, index) ==
    [j \in 1..(Len(v) - 1) |-> IF j <= index THEN v[j] ELSE v[j + 1]]

\* Vec::pop: the vector without its last element.
Front(v) == SubSeq(v, 1, Len(v) - 1)

Last(v) == v[Len(v)]

\* slice.get_mut(index) followed by an assignment: no-op when out of range.
SetAt(v, index, x) ==
    IF index < Len(v) THEN [v EXCEPT ![index + 1] = x] ELSE v

Min(a, b) == IF a < b THEN a ELSE b

\* ---------------------------------------------------------------------
\* Undo / redo infrastructure (pages/planner.rs)
\* ---------------------------------------------------------------------

capture_snapshot(s) ==
    [gun_positions |-> s.gun_positions,
     target_positions |-> s.target_positions,
     spotter_positions |-> s.spotter_positions,
     gun_weapon_ids |-> s.gun_weapon_ids,
     gun_target_indices |-> s.gun_target_indices,
     wind_direction |-> s.wind_direction,
     wind_strength |-> s.wind_strength]

restore_snapshot(snapshot, s) ==
    [s EXCEPT !.gun_positions = snapshot.gun_positions,
              !.target_positions = snapshot.target_positions,
              !.spotter_positions = snapshot.spotter_positions,
              !.gun_weapon_ids = snapshot.gun_weapon_ids,
              !.gun_target_indices = snapshot.gun_target_indices,
              !.wind_direction = snapshot.wind_direction,
              !.wind_strength = snapshot.wind_strength]

\* push_undo without the cap.
push_undo_uncapped(s, snapshot) ==
    [s EXCEPT !.undo_stack = Append(@, snapshot),
              !.redo_stack = <<>>]

\* push_undo that makes room by dropping the newest snapshot.
push_undo_drops_newest(s, snapshot) ==
    LET stack == Append(s.undo_stack, snapshot)
    IN  [s EXCEPT !.undo_stack = IF Len(stack) > UNDO_LIMIT
                                 THEN Front(stack) ELSE stack,
                  !.redo_stack = <<>>]

push_undo(s, snapshot) ==
    LET stack == Append(s.undo_stack, snapshot)
    IN  [s EXCEPT !.undo_stack = IF Len(stack) > UNDO_LIMIT
                                 THEN Tail(stack) ELSE stack,
                  !.redo_stack = <<>>]

\* The push_snapshot closures of Planner and MapView.
push_snapshot(s) == push_undo(s, capture_snapshot(s))

\* Ctrl+Z.
KeyUndo(s) ==
    IF s.undo_stack = <<>> THEN s
    ELSE LET snap == Last(s.undo_stack)
             popped == [s EXCEPT !.undo_stack = Front(@)]
             current == capture_snapshot(popped)
             pushed == [popped EXCEPT !.redo_stack = Append(@, current)]
         IN  [restore_snapshot(snap, pushed) EXCEPT !.selected_marker = None]

\* Redo that saves the live state through push_undo, which clears the redo
\* stack.
KeyRedo_via_push_undo(s) ==
    IF s.redo_stack = <<>> THEN s
    ELSE LET snap == Last(s.redo_stack)
             popped == [s EXCEPT !.redo_stack = Front(@)]
             pushed == [popped EXCEPT
                           !.undo_stack = Append(@, capture_snapshot(popped)),
                           !.redo_stack = <<>>]
         IN  [restore_snapshot(snap, pushed) EXCEPT !.selected_marker = None]

\* Ctrl+Shift+Z.
KeyRedo(s) ==
    IF s.redo_stack = <<>> THEN s
    ELSE LET snap == Last(s.redo_stack)
             popped == [s EXCEPT !.redo_stack = Front(@)]
             current == capture_snapshot(popped)
             pushed == [popped EXCEPT !.undo_stack = Append(@, current)]
         IN  [restore_snapshot(snap, pushed) EXCEPT !.selected_marker = None]

\* ---------------------------------------------------------------------
\* Marker helpers (components/map_view.rs)
\* ---------------------------------------------------------------------

MarkerList(s, kind) ==
    IF kind = "Gun" THEN s.gun_positions
    ELSE IF kind = "Target" THEN s.target_positions
    ELSE s.spotter_positions

\* Squared Euclidean distance; the code compares square roots, which order
\* the same way.
Dist2(a, b) == (a[1] - b[1]) * (a[1] - b[1]) + (a[2] - b[2]) * (a[2] - b[2])

\* REMOVE_THRESHOLD / zoom.min(5.0) as the fraction <<numerator,
\* denominator>>; zoom is held in hundredths, ZOOM_MIN being 1.0.
Threshold(zoom) == <<REMOVE_THRESHOLD * ZOOM_MIN, Min(zoom, 5 * ZOOM_MIN)>>

\* dist < threshold for a squared distance d2, without rounding.  No zoom
\* is below 1.0, so nothing beyond REMOVE_THRESHOLD is within.
Within(d2, threshold) ==
    /\ d2 <= REMOVE_THRESHOLD * REMOVE_THRESHOLD
    /\ d2 * threshold[2] * threshold[2] < threshold[1] * threshold[1]

\* find_nearest that settles for the first position within the threshold.
find_first_within(positions, click, threshold) ==
    LET within == {j \in 1..Len(positions) :
                      Within(Dist2(positions[j], click), threshold)}
    IN  IF within = {} THEN None
        ELSE Some((CHOOSE a \in within : \A b \in within : a <= b) - 1)

\* The loop of find_nearest over positions[1..n]: <<best_idx, best_dist^2>>;
\* while best_idx is None, best_dist is still the threshold.
RECURSIVE NearestScan(_, _, _, _)
NearestScan(positions, click, threshold, n) ==
    IF n = 0 THEN <<None, 0>>
    ELSE LET prev == NearestScan(positions, click, threshold, n - 1)
             d2 == Dist2(positions[n], click)
             closer == IF prev[1] = None THEN Within(d2, threshold)
                       ELSE d2 < prev[2]
         IN  IF closer THEN <<Some(n - 1), d2>> ELSE prev

find_nearest(positions, click, threshold) ==
    NearestScan(positions, click, threshold, Len(positions))[1]

\* The fix-up without the index shift.
FixPairings_no_shift(pairings, index) ==
    [j \in 1..Len(pairings) |->
        IF pairings[j] = Some(index) THEN None ELSE pairings[j]]

\* The pairing fix-up loop of remove_marker(Target, index).
FixPairings(pairings, index) ==
    [j \in 1..Len(pairings) |->
        IF pairings[j] = None THEN None
        ELSE IF pairings[j][1] = index THEN None
        ELSE IF pairings[j][1] > index THEN Some(pairings[j][1] - 1)
        ELSE pairings[j]]

\* A gun removal that clears the gun's pairing entry instead of removing
\* it; targets and spotters as in the code.
remove_marker_keeps_pairing(s, kind, index) ==
    IF kind = "Gun" THEN
        [s EXCEPT !.gun_positions = VecRemove(@, index),
                  !.gun_weapon_ids = VecRemove(@, index),
                  !.gun_target_indices = [@ EXCEPT ![index + 1] = None]]
    ELSE IF kind = "Target" THEN
        [s EXCEPT !.target_positions = VecRemove(@, index),
                  !.gun_target_indices = FixPairings(@, index)]
    ELSE
        [s EXCEPT !.spotter_positions = VecRemove(@, index)]

\* A Vec::remove out of range panics after the removals before it were made.
remove_marker(s, kind, index) ==
    IF kind = "Gun" THEN
        IF index >= Len(s.gun_positions) THEN [s EXCEPT !.panicked = TRUE]
        ELSE LET s1 == [s EXCEPT !.gun_positions = VecRemove(@, index)]
             IN  IF index >= Len(s.gun_weapon_ids)
                 THEN [s1 EXCEPT !.panicked = TRUE]
                 ELSE LET s2 == [s1 EXCEPT !.gun_weapon_ids = VecRemove(@, index)]
                      IN  IF index < Len(s.gun_target_indices)
                          THEN [s2 EXCEPT !.gun_target_indices = VecRemove(@, index)]
                          ELSE s2
    ELSE IF kind = "Target" THEN
        IF index >= Len(s.target_positions) THEN [s EXCEPT !.panicked = TRUE]
        ELSE [s EXCEPT !.target_positions = VecRemove(@, index),
                       !.gun_target_indices = FixPairings(@, index)]
    ELSE
        IF index >= Len(s.spotter_positions) THEN [s EXCEPT !.panicked = TRUE]
        ELSE [s EXCEPT !.spotter_positions = VecRemove(@, index)]

\* Pairing by position in the list, as for plans without stored pairings.
find_first_unpaired_target_by_index(pairings, target_count) ==
    IF Len(pairings) < target_count THEN Some(Len(pairings)) ELSE None

\* First target index in 0..target_count-1 that no pairing references.
find_first_unpaired_target(pairings, target_count) ==
    LET free == {ti \in 0..(target_count - 1) :
                    \A j \in 1..Len(pairings) : pairings[j] # Some(ti)}
    IN  IF free = {} THEN None
        ELSE Some(CHOOSE ti \in free : \A tj \in free : ti <= tj)

\* Pairing the last None entry instead of the first.
pair_last_unpaired_gun(pairings, target_idx) ==
    LET unpaired == {j \in 1..Len(pairings) : pairings[j] = None}
    IN  IF unpaired = {} THEN pairings
        ELSE LET j == CHOOSE a \in unpaired : \A b \in unpaired : a >= b
             IN  [pairings EXCEPT ![j] = Some(target_idx)]

\* Pair the first None entry with target_idx.
pair_first_unpaired_gun(pairings, target_idx) ==
    LET unpaired == {j \in 1..Len(pairings) : pairings[j] = None}
    IN  IF unpaired = {} THEN pairings
        ELSE LET j == CHOOSE a \in unpaired : \A b \in unpaired : a <= b
             IN  [pairings EXCEPT ![j] = Some(target_idx)]

\* A cycle through all three modes.
AutoCycle_three_way(mode) ==
    IF mode = "Gun" THEN "Target"
    ELSE IF mode = "Target" THEN "Spotter"
    ELSE "Gun"

\* The auto-cycle match at the end of handle_marker_placement.
AutoCycle(mode) ==
    IF mode = "Gun" THEN "Target"
    ELSE IF mode = "Target" THEN "Gun"
    ELSE mode

\* A resolved click or tap at map position click, at the given zoom.
handle_marker_placement(s, click, zoom) ==
    IF s.selected_marker # None THEN
        LET sm == s.selected_marker[1]
            s1 == push_snapshot(s)
            hit == find_nearest(s1.target_positions, click, Threshold(zoom))
            s2 == IF sm.kind = "Gun" THEN
                      IF hit # None
                      THEN [s1 EXCEPT !.gun_target_indices = SetAt(@, sm.index, hit)]
                      ELSE [s1 EXCEPT !.gun_positions = SetAt(@, sm.index, click)]
                  ELSE IF sm.kind = "Target"
                  THEN [s1 EXCEPT !.target_positions = SetAt(@, sm.index, click)]
                  ELSE [s1 EXCEPT !.spotter_positions = SetAt(@, sm.index, click)]
        IN  [s2 EXCEPT !.selected_marker = None]
    ELSE
        LET s1 == push_snapshot(s)
            mode == s1.placement_mode
            hit == find_nearest(s1.target_positions, click, Threshold(zoom))
            s2 == IF mode = "Gun" THEN
                      [s1 EXCEPT !.gun_positions = Append(@, click),
                                 !.gun_weapon_ids = Append(@, s1.selected_weapon),
                                 !.gun_target_indices =
                                     Append(@, find_first_unpaired_target(
                                                   s1.gun_target_indices,
                                                   Len(s1.target_positions)))]
                  ELSE IF mode = "Target" THEN
                      IF hit # None
                      THEN [s1 EXCEPT !.gun_target_indices =
                                          pair_first_unpaired_gun(@, hit[1])]
                      ELSE [s1 EXCEPT !.target_positions = Append(@, click),
                                      !.gun_target_indices =
                                          pair_first_unpaired_gun(
                                              @, Len(s1.target_positions))]
                  ELSE [s1 EXCEPT !.spotter_positions = Append(@, click)]
        IN  [s2 EXCEPT !.placement_mode = AutoCycle(mode)]

\* The victim search without the priority of the active mode's list.
RemovalVictim_global_nearest(s, click, zoom) ==
    LET threshold == Threshold(zoom)
        hits == {h \in Kinds \X (0..(Len(s.gun_positions)
                                      + Len(s.target_positions)
                                      + Len(s.spotter_positions))) :
                    /\ h[2] < Len(MarkerList(s, h[1]))
                    /\ Within(Dist2(MarkerList(s, h[1])[h[2] + 1], click),
                              threshold)}
        D(h) == Dist2(MarkerList(s, h[1])[h[2] + 1], click)
        Rank(k) == IF k = "Gun" THEN 0 ELSE IF k = "Target" THEN 1 ELSE 2
        Before(a, b) ==
            \/ D(a) < D(b)
            \/ D(a) = D(b) /\ Rank(a[1]) < Rank(b[1])
            \/ D(a) = D(b) /\ a[1] = b[1] /\ a[2] <= b[2]
    IN  IF hits = {} THEN None
        ELSE Some(CHOOSE a \in hits : \A b \in hits : Before(a, b))

\* The marker a right-click at click removes: <<kind, index>> or None.  The
\* list of the active placement mode is searched first; failing that the
\* nearest hit of the three lists, the earlier list winning a tie (min_by
\* keeps the first minimum).
RemovalVictim(s, click, zoom) ==
    LET threshold == Threshold(zoom)
        gun_hit == find_nearest(s.gun_positions, click, threshold)
        tgt_hit == find_nearest(s.target_positions, click, threshold)
        spt_hit == find_nearest(s.spotter_positions, click, threshold)
        mode_hit == IF s.placement_mode = "Gun" THEN gun_hit
                    ELSE IF s.placement_mode = "Target" THEN tgt_hit
                    ELSE spt_hit
        mode_kind == s.placement_mode
        gd == IF gun_hit = None THEN -1
              ELSE Dist2(s.gun_positions[gun_hit[1] + 1], click)
        td == IF tgt_hit = None THEN -1
              ELSE Dist2(s.target_positions[tgt_hit[1] + 1], click)
        sd == IF spt_hit = None THEN -1
              ELSE Dist2(s.spotter_positions[spt_hit[1] + 1], click)
    IN  IF mode_hit # None THEN Some(<<mode_kind, mode_hit[1]>>)
        ELSE IF gun_hit # None /\ (tgt_hit = None \/ gd <= td)
                            /\ (spt_hit = None \/ gd <= sd)
             THEN Some(<<"Gun", gun_hit[1]>>)
        ELSE IF tgt_hit # None /\ (spt_hit = None \/ td <= sd)
             THEN Some(<<"Target", tgt_hit[1]>>)
        ELSE IF spt_hit # None THEN Some(<<"Spotter", spt_hit[1]>>)
        ELSE None

\* A fix-up that clears a selected victim but never shifts an index.
FixSelection_no_shift(cur_sel, kind, idx) ==
    IF cur_sel = None THEN cur_sel
    ELSE IF cur_sel[1].kind = kind /\ cur_sel[1].index = idx THEN None
    ELSE cur_sel

\* Selection fix-up after the removal of marker (kind, idx).
FixSelection(cur_sel, kind, idx) ==
    IF cur_sel = None THEN cur_sel
    ELSE IF cur_sel[1].kind # kind THEN cur_sel
    ELSE IF cur_sel[1].index = idx THEN None
    ELSE IF cur_sel[1].index > idx
         THEN Some([kind |-> kind, index |-> cur_sel[1].index - 1])
    ELSE cur_sel

\* A right-click that pushes its snapshot before it looks for a marker.
oncontextmenu_snapshot_first(s, click, zoom) ==
    LET target == RemovalVictim(s, click, zoom)
    IN  IF target = None THEN push_snapshot(s)
        ELSE LET kind == target[1][1]
                 idx == target[1][2]
                 s1 == remove_marker(push_snapshot(s), kind, idx)
             IN  IF s1.panicked THEN s1
                 ELSE [s1 EXCEPT !.selected_marker =
                                     FixSelection(s.selected_marker, kind, idx)]

\* MapView::oncontextmenu with a resolved position.
oncontextmenu(s, click, zoom) ==
    LET target == RemovalVictim(s, click, zoom)
    IN  IF target = None THEN s
        ELSE LET kind == target[1][1]
                 idx == target[1][2]
                 s1 == remove_marker(push_snapshot(s), kind, idx)
             IN  IF s1.panicked THEN s1
                 ELSE [s1 EXCEPT !.selected_marker =
                                     FixSelection(s.selected_marker, kind, idx)]

\* Delete that removes without pushing a snapshot first.
KeyDelete_without_snapshot(s) ==
    IF s.selected_marker = None THEN s
    ELSE LET sm == s.selected_marker[1]
             s1 == remove_marker(s, sm.kind, sm.index)
         IN  IF s1.panicked THEN s1
             ELSE [s1 EXCEPT !.selected_marker = None]

\* Delete / Backspace.
KeyDelete(s) ==
    IF s.selected_marker = None THEN s
    ELSE LET sm == s.selected_marker[1]
             s1 == remove_marker(push_snapshot(s), sm.kind, sm.index)
         IN  IF s1.panicked THEN s1
             ELSE [s1 EXCEPT !.selected_marker = None]

\* Map <select> onchange.
MapOnChange(s, value) ==
    [push_snapshot(s) EXCEPT !.selected_map = value,
                             !.gun_positions = <<>>,
                             !.target_positions = <<>>,
                             !.spotter_positions = <<>>,
                             !.gun_weapon_ids = <<>>,
                             !.gun_target_indices = <<>>,
                             !.selected_marker = None]

\* A compass button of WindInput.
WindDirOnClick(s, deg) ==
    [s EXCEPT !.wind_direction = IF @ = Some(deg) THEN None ELSE Some(deg)]

\* The strength slider of WindInput.
WindStrengthOnChange(s, v) == [s EXCEPT !.wind_strength = v]

\* WeaponSelector <select> onchange.
WeaponSelectorOnChange(s, slug) == [s EXCEPT !.selected_weapon = slug]

\* The inline weapon <select> of CalculationDisplay for gun idx.
InlineWeaponOnChange(s, idx, new_slug) ==
    [s EXCEPT !.gun_weapon_ids = SetAt(@, idx, new_slug)]

\* A marker item of CalculationDisplay: toggles the selection.
MarkerItemOnClick(s, kind, i) ==
    LET item == Some([kind |-> kind, index |-> i])
    IN  [s EXCEPT !.selected_marker = IF @ = item THEN None ELSE item]

\* Keys 1/g, 2/t, 3/s and the header buttons.
SetPlacementMode(s, mode) == [s EXCEPT !.placement_mode = mode]

\* Escape with the help overlay closed.
KeyEscape(s) == [s EXCEPT !.selected_marker = None]

\* ---------------------------------------------------------------------
\* View transform and pointer gestures (components/map_view.rs, coords.rs)
\*
\* Pointer positions and pan offsets are whole CSS pixels relative to the
\* container's top-left corner, zoom factors are hundredths, and every
\* division rounds down: fixed-point arithmetic in place of f64.
\* ---------------------------------------------------------------------

Max(a, b) == IF a >= b THEN a ELSE b

\* f64::clamp
Clamp(x, lo, hi) == IF x < lo THEN lo ELSE IF x > hi THEN hi ELSE x

Abs(x) == IF x < 0 THEN -x ELSE x

\* f64::sqrt, rounded down to a whole pixel.
ISqrt(n) == CHOOSE r \in 0..(MAP_WIDTH_PX + MAP_HEIGHT_PX) :
                r * r <= n /\ n < (r + 1) * (r + 1)

\* The signals of MapView right after it is mounted in a container of the
\* given <<width, height>>; no finger is on the screen.  multi records
\* that two fingers were on the screen at some moment since it was last
\* free of fingers.
InitialView(rect) ==
    [zoom |-> ZOOM_MIN,
     pan_x |-> 0,
     pan_y |-> 0,
     is_dragging |-> FALSE,
     did_drag |-> FALSE,
     drag_start_x |-> 0,
     drag_start_y |-> 0,
     drag_start_pan_x |-> 0,
     drag_start_pan_y |-> 0,
     touch_start_pos |-> None,
     touch_did_pan |-> FALSE,
     touch_start_pan_x |-> 0,
     touch_start_pan_y |-> 0,
     is_pinching |-> FALSE,
     pinch_start_distance |-> 0,
     pinch_start_zoom |-> ZOOM_MIN,
     pinch_midpoint |-> <<0, 0>>,
     pinch_start_pan_x |-> 0,
     pinch_start_pan_y |-> 0,
     rect |-> rect,
     touches |-> <<>>,
     multi |-> FALSE,
     gestures |-> 0]

\* The anchor without the old pan: it takes the cursor for the content
\* point.
zoom_pan_at_cursor_ignoring_pan(cursor_x, cursor_y, old_zoom, new_zoom, old_pan_x, old_pan_y) ==
    <<cursor_x - (cursor_x * new_zoom) \div old_zoom,
      cursor_y - (cursor_y * new_zoom) \div old_zoom>>

zoom_pan_at_cursor(cursor_x, cursor_y, old_zoom, new_zoom, old_pan_x, old_pan_y) ==
    <<cursor_x - ((cursor_x - old_pan_x) * new_zoom) \div old_zoom,
      cursor_y - ((cursor_y - old_pan_y) * new_zoom) \div old_zoom>>

\* A clamp that takes the content to be as tall as the container.
clamp_pan_square(pan_x, pan_y, zoom, container_w, container_h) ==
    LET content_w == (container_w * zoom) \div ZOOM_MIN
        content_h == (container_h * zoom) \div ZOOM_MIN
    IN  <<Clamp(pan_x, -Max(content_w - container_w, 0), 0),
          Clamp(pan_y, -Max(content_h - container_h, 0), 0)>>

clamp_pan(pan_x, pan_y, zoom, container_w, container_h) ==
    LET content_w == (container_w * zoom) \div ZOOM_MIN
        content_h == (container_w * MAP_HEIGHT_PX * zoom)
                         \div (MAP_WIDTH_PX * ZOOM_MIN)
        min_pan_x == -Max(content_w - container_w, 0)
        min_pan_y == -Max(content_h - container_h, 0)
    IN  <<Clamp(pan_x, min_pan_x, 0), Clamp(pan_y, min_pan_y, 0)>>

\* The container element exists whenever one of its handlers runs.
clamp_pan_to_container(v, pan_x, pan_y, zoom) ==
    clamp_pan(pan_x, pan_y, zoom, v.rect[1], v.rect[2])

point_distance(a, b) == ISqrt(Dist2(a, b))

\* Option<(img_x, img_y)>
client_to_map_px_zoomed(container_x, container_y, container_w, zoom, pan_x, pan_y) ==
    IF container_w <= 0 \/ zoom <= 0 THEN None
    ELSE LET rendered_x == ((container_x - pan_x) * ZOOM_MIN) \div zoom
             rendered_y == ((container_y - pan_y) * ZOOM_MIN) \div zoom
             img_x == Clamp((rendered_x * MAP_WIDTH_PX) \div container_w,
                            0, MAP_WIDTH_PX)
             img_y == Clamp((rendered_y * MAP_WIDTH_PX) \div container_w,
                            0, MAP_HEIGHT_PX)
         IN  Some(<<img_x, img_y>>)

click_to_map_px_zoomed(v, client) ==
    client_to_map_px_zoomed(client[1], client[2], v.rect[1],
                            v.zoom, v.pan_x, v.pan_y)

\* A wheel step that does not clamp the zoom.
onwheel_unclamped(v, cursor, delta_y) ==
    LET old_z == v.zoom
        new_z == IF delta_y < 0
                 THEN (old_z * ZOOM_STEP_NUM) \div ZOOM_STEP_DEN
                 ELSE (old_z * ZOOM_STEP_DEN) \div ZOOM_STEP_NUM
        anchored == zoom_pan_at_cursor(cursor[1], cursor[2], old_z, new_z,
                                       v.pan_x, v.pan_y)
        clamped == clamp_pan(anchored[1], anchored[2], new_z,
                             v.rect[1], v.rect[2])
    IN  [v EXCEPT !.zoom = new_z, !.pan_x = clamped[1], !.pan_y = clamped[2]]

onwheel(v, cursor, delta_y) ==
    LET old_z == v.zoom
        scaled == IF delta_y < 0
                  THEN (old_z * ZOOM_STEP_NUM) \div ZOOM_STEP_DEN
                  ELSE (old_z * ZOOM_STEP_DEN) \div ZOOM_STEP_NUM
        new_z == Clamp(scaled, ZOOM_MIN, ZOOM_MAX)
        anchored == zoom_pan_at_cursor(cursor[1], cursor[2], old_z, new_z,
                                       v.pan_x, v.pan_y)
        clamped == clamp_pan(anchored[1], anchored[2], new_z,
                             v.rect[1], v.rect[2])
    IN  IF new_z = old_z THEN v
        ELSE [v EXCEPT !.zoom = new_z,
                       !.pan_x = clamped[1],
                       !.pan_y = clamped[2]]

onmousedown(v, client, button) ==
    IF button # "Primary" THEN v
    ELSE [v EXCEPT !.is_dragging = TRUE,
                   !.did_drag = FALSE,
                   !.drag_start_x = client[1],
                   !.drag_start_y = client[2],
                   !.drag_start_pan_x = v.pan_x,
                   !.drag_start_pan_y = v.pan_y]

\* A move handler that takes reaching the threshold for a drag.
onmousemove_at_threshold(v, client) ==
    IF ~v.is_dragging THEN v
    ELSE LET dx == client[1] - v.drag_start_x
             dy == client[2] - v.drag_start_y
             drag == v.did_drag \/ Abs(dx) >= DRAG_THRESHOLD
                                \/ Abs(dy) >= DRAG_THRESHOLD
             clamped == clamp_pan_to_container(v, v.drag_start_pan_x + dx,
                                               v.drag_start_pan_y + dy, v.zoom)
         IN  IF drag THEN [v EXCEPT !.did_drag = TRUE,
                                    !.pan_x = clamped[1],
                                    !.pan_y = clamped[2]]
             ELSE v

onmousemove(v, client) ==
    IF ~v.is_dragging THEN v
    ELSE LET dx == client[1] - v.drag_start_x
             dy == client[2] - v.drag_start_y
             drag == v.did_drag \/ Abs(dx) > DRAG_THRESHOLD
                                \/ Abs(dy) > DRAG_THRESHOLD
             clamped == clamp_pan_to_container(v, v.drag_start_pan_x + dx,
                                               v.drag_start_pan_y + dy, v.zoom)
         IN  IF drag THEN [v EXCEPT !.did_drag = TRUE,
                                    !.pan_x = clamped[1],
                                    !.pan_y = clamped[2]]
             ELSE v

\* onmouseup: what it leaves in the view signals ...
onmouseup_view(v) == [v EXCEPT !.is_dragging = FALSE]

\* ... and in the Planner signals: a release without drag is a click.
onmouseup(s, v, client) ==
    IF v.is_dragging /\ ~v.did_drag
    THEN LET img == click_to_map_px_zoomed(v, client)
         IN  IF img = None THEN s
             ELSE handle_marker_placement(s, img[1], v.zoom)
    ELSE s

\* oncontextmenu with the position resolved through the view transform.
oncontextmenu_at(s, v, client) ==
    LET img == click_to_map_px_zoomed(v, client)
    IN  IF img = None THEN s ELSE oncontextmenu(s, img[1], v.zoom)

onmouseleave(v) == [v EXCEPT !.is_dragging = FALSE]

ondoubleclick(v) == [v EXCEPT !.zoom = ZOOM_MIN, !.pan_x = 0, !.pan_y = 0]

\* The effect that runs when the "r" key has changed reset_view_counter.
reset_view(v) == [v EXCEPT !.zoom = ZOOM_MIN, !.pan_x = 0, !.pan_y = 0]

\* A touchstart that leaves touch_did_pan as it is when one finger comes
\* down.
ontouchstart_keeps_did_pan(v, touches) ==
    IF Len(touches) = 1
    THEN [v EXCEPT !.touch_start_pos = Some(touches[1]),
                   !.touch_start_pan_x = v.pan_x,
                   !.touch_start_pan_y = v.pan_y]
    ELSE IF Len(touches) >= 2
    THEN [v EXCEPT !.is_pinching = TRUE,
                   !.pinch_start_distance = point_distance(touches[1], touches[2]),
                   !.pinch_start_zoom = v.zoom,
                   !.pinch_midpoint = <<(touches[1][1] + touches[2][1]) \div 2,
                                        (touches[1][2] + touches[2][2]) \div 2>>,
                   !.pinch_start_pan_x = v.pan_x,
                   !.pinch_start_pan_y = v.pan_y,
                   !.touch_start_pos = None,
                   !.touch_did_pan = TRUE]
    ELSE v

\* touches is the list of fingers on the screen once the new one is down.
ontouchstart(v, touches) ==
    IF Len(touches) = 1
    THEN [v EXCEPT !.touch_start_pos = Some(touches[1]),
                   !.touch_did_pan = FALSE,
                   !.touch_start_pan_x = v.pan_x,
                   !.touch_start_pan_y = v.pan_y]
    ELSE IF Len(touches) >= 2
    THEN [v EXCEPT !.is_pinching = TRUE,
                   !.pinch_start_distance = point_distance(touches[1], touches[2]),
                   !.pinch_start_zoom = v.zoom,
                   !.pinch_midpoint = <<(touches[1][1] + touches[2][1]) \div 2,
                                        (touches[1][2] + touches[2][2]) \div 2>>,
                   !.pinch_start_pan_x = v.pan_x,
                   !.pinch_start_pan_y = v.pan_y,
                   !.touch_start_pos = None,
                   !.touch_did_pan = TRUE]
    ELSE v

ontouchmove(v, touches) ==
    IF v.is_pinching /\ Len(touches) >= 2 THEN
        LET d == point_distance(touches[1], touches[2])
            start_d == v.pinch_start_distance
            old_z == v.pinch_start_zoom
            new_z == Clamp((old_z * d) \div start_d, ZOOM_MIN, ZOOM_MAX)
            anchored == zoom_pan_at_cursor(v.pinch_midpoint[1],
                                           v.pinch_midpoint[2], old_z, new_z,
                                           v.pinch_start_pan_x,
                                           v.pinch_start_pan_y)
            clamped == clamp_pan(anchored[1], anchored[2], new_z,
                                 v.rect[1], v.rect[2])
        IN  IF start_d < 1 THEN v
            ELSE [v EXCEPT !.zoom = new_z,
                           !.pan_x = clamped[1],
                           !.pan_y = clamped[2]]
    ELSE IF Len(touches) = 1 /\ v.touch_start_pos # None THEN
        LET start == v.touch_start_pos[1]
            cur == touches[1]
            dx == cur[1] - start[1]
            dy == cur[2] - start[2]
            pan == v.touch_did_pan
                     \/ Dist2(start, cur)
                            > TOUCH_DRAG_THRESHOLD * TOUCH_DRAG_THRESHOLD
            clamped == clamp_pan_to_container(v, v.touch_start_pan_x + dx,
                                              v.touch_start_pan_y + dy, v.zoom)
        IN  IF pan THEN [v EXCEPT !.touch_did_pan = TRUE,
                                  !.pan_x = clamped[1],
                                  !.pan_y = clamped[2]]
            ELSE v
    ELSE v

\* ontouchend with remaining fingers still down: the view signals ...
ontouchend_view(v, remaining) ==
    IF v.is_pinching
    THEN IF remaining = 0
         THEN [v EXCEPT !.is_pinching = FALSE, !.touch_start_pos = None]
         ELSE v
    ELSE IF remaining = 0 THEN [v EXCEPT !.touch_start_pos = None]
    ELSE v

\* ... and the Planner signals: a tap is resolved at the start position.
ontouchend(s, v, remaining) ==
    IF ~v.is_pinching /\ remaining = 0 /\ ~v.touch_did_pan
          /\ v.touch_start_pos # None
    THEN LET img == click_to_map_px_zoomed(v, v.touch_start_pos[1])
         IN  IF img = None THEN s
             ELSE handle_marker_placement(s, img[1], v.zoom)
    ELSE s

ontouchcancel(v) ==
    [v EXCEPT !.touch_start_pos = None,
              !.touch_did_pan = FALSE,
              !.is_pinching = FALSE]

\* ---------------------------------------------------------------------
\* Plan loading (pages/planner.rs, shared/src/grid.rs)
\* ---------------------------------------------------------------------

\* Meters per pixel as fractions: 2184 / 1024 = 273 / 128 on x and
\* 1890 / 888 = 315 / 148 on y.  A meter coordinate is held in units of
\* 1/128 m on x and 1/148 m on y, so that both conversions are integral.
MPP_X_NUM == 273

MPP_Y_NUM == 315

px_to_meters(px) == <<px[1] * MPP_X_NUM, px[2] * MPP_Y_NUM>>

meters_to_px(m) == <<m[1] \div MPP_X_NUM, m[2] \div MPP_Y_NUM>>

\* Position lists converted element by element, as the loader and the save
\* handler do with iter().map().collect().
all_meters_to_px(v) == [j \in 1..Len(v) |-> meters_to_px(v[j])]

all_px_to_meters(v) == [j \in 1..Len(v) |-> px_to_meters(v[j])]

\* _plan_loader with the legacy fallback pairing every gun with the target
\* of its own index, whether that target exists or not.
plan_loader_unbounded(s, plan) ==
    [s EXCEPT
        !.selected_map = plan.map_id,
        !.selected_weapon = IF plan.weapon_ids # <<>>
                            THEN plan.weapon_ids[1] ELSE @,
        !.gun_weapon_ids = plan.weapon_ids,
        !.gun_positions = all_meters_to_px(plan.gun_positions),
        !.target_positions = all_meters_to_px(plan.target_positions),
        !.spotter_positions = all_meters_to_px(plan.spotter_positions),
        !.gun_target_indices =
            IF plan.gun_target_indices = <<>>
            THEN [j \in 1..Len(plan.gun_positions) |-> Some(j - 1)]
            ELSE plan.gun_target_indices,
        !.wind_direction = IF plan.wind_direction # None
                           THEN plan.wind_direction ELSE @,
        !.wind_strength = plan.wind_strength]

\* The body of the _plan_loader resource once fetch_plan returned the plan.
plan_loader(s, plan) ==
    LET num_guns == Len(plan.gun_positions)
        num_targets == Len(plan.target_positions)
    IN  [s EXCEPT
            !.selected_map = plan.map_id,
            !.selected_weapon = IF plan.weapon_ids # <<>>
                                THEN plan.weapon_ids[1] ELSE @,
            !.gun_weapon_ids = plan.weapon_ids,
            !.gun_positions = all_meters_to_px(plan.gun_positions),
            !.target_positions = all_meters_to_px(plan.target_positions),
            !.spotter_positions = all_meters_to_px(plan.spotter_positions),
            !.gun_target_indices =
                IF plan.gun_target_indices = <<>>
                THEN [j \in 1..num_guns |->
                         IF j - 1 < num_targets THEN Some(j - 1) ELSE None]
                ELSE plan.gun_target_indices,
            !.wind_direction = IF plan.wind_direction # None
                               THEN plan.wind_direction ELSE @,
            !.wind_strength = plan.wind_strength]

\* What on_save sends for a planning state: positions in meters.
PlanOf(map_id, weapon_ids, guns, targets, spotters, pairings, w_dir, w_str) ==
    [map_id |-> map_id,
     weapon_ids |-> weapon_ids,
     gun_positions |-> all_px_to_meters(guns),
     target_positions |-> all_px_to_meters(targets),
     spotter_positions |-> all_px_to_meters(spotters),
     gun_target_indices |-> pairings,
     wind_direction |-> w_dir,
     wind_strength |-> w_str]

\* Indices (into StoredPlans) of the plans a run of SpecEdit may open.
EditPlans == {3, 4}

PA == <<100, 100>>

PB == <<130, 100>>

\* Plans held by the server: each was saved from a planning state the
\* front end reaches from the empty plan, the last one by an older client
\* that stored no pairings.
StoredPlans ==
    << PlanOf("map-a", <<"mortar", "mortar", "">>, <<PA, PB, PA>>, <<PA, PB>>,
              <<>>, <<Some(0), Some(0), Some(1)>>, None, 0),
       PlanOf("map-a", <<"mortar">>, <<PA>>, <<PA, PB>>,
              <<>>, <<Some(0)>>, None, 0),
       PlanOf("map-b", <<"mortar", "">>, <<PA, PB>>, <<PB>>,
              <<PA>>, <<None, Some(0)>>, Some(0), 3),
       PlanOf("map-a", <<"">>, <<PB>>, <<PA, PB>>,
              <<PB>>, <<Some(1)>>, None, 3),
       PlanOf("map-b", <<>>, <<>>, <<>>,
              <<PA, PB>>, <<>>, Some(0), 0),
       PlanOf("map-a", <<"mortar", "mortar">>, <<PA, PB>>, <<PA>>,
              <<>>, <<>>, None, 0) >>

\* ---------------------------------------------------------------------
\* Server: createPlan (backend/src/graphql/mod.rs, backend/src/storage)
\*
\* A request position is in the units of px_to_meters (x in 1/128 m, y in
\* 1/148 m); a coordinate that is not a number is the value NaN, which no
\* computation yields.  A name is its length in characters and in bytes.
\* Validators give TRUE for Ok(()).
\* ---------------------------------------------------------------------

MAP_WIDTH_M == 2184

MAP_HEIGHT_M == 1890

MPP_X_DEN == 128

MPP_Y_DEN == 148

NAME_LIMIT == 200

WIND_STRENGTH_LIMIT == 5

UNASSIGNED_WEAPON == "unassigned"

\* Assets::find_weapon_by_slug(..).is_some()
KnownWeapons == Slugs \ {""}

NaN == 2147483647

is_finite(x) == x # NaN

validate_name(name) == ~(name.bytes > NAME_LIMIT)

validate_map_id(map_id) == map_id \in Maps

validate_weapon_ids(weapon_ids) ==
    \A j \in 1..Len(weapon_ids) :
        \/ weapon_ids[j] = "" \/ weapon_ids[j] = UNASSIGNED_WEAPON
        \/ weapon_ids[j] \in KnownWeapons

validate_position(pos) ==
    IF ~is_finite(pos[1]) \/ ~is_finite(pos[2]) THEN FALSE
    ELSE ~(\/ pos[1] < 0 \/ pos[1] > MAP_WIDTH_M * MPP_X_DEN
           \/ pos[2] < 0 \/ pos[2] > MAP_HEIGHT_M * MPP_Y_DEN)

validate_positions(positions) ==
    \A j \in 1..Len(positions) : validate_position(positions[j])

validate_gun_target_indices(indices, target_count) ==
    \A j \in 1..Len(indices) :
        indices[j] # None =>
            /\ ~(indices[j][1] < 0)
            /\ ~(target_count > 0 /\ indices[j][1] >= target_count)

\* The message of the Err that validate_gun_target_indices returns, by its
\* distinguishing words, for the first entry its loop refuses; None for Ok.
gun_target_indices_error(indices, target_count) ==
    LET refused == {j \in 1..Len(indices) :
                       /\ indices[j] # None
                       /\ \/ indices[j][1] < 0
                          \/ target_count > 0 /\ indices[j][1] >= target_count}
        first == CHOOSE j \in refused : \A k \in refused : j <= k
    IN  IF refused = {} THEN None
        ELSE IF indices[first][1] < 0 THEN Some("non-negative")
        ELSE Some("out of bounds")

validate_wind_direction(dir) ==
    IF ~is_finite(dir) THEN FALSE ELSE 0 <= dir /\ dir < 360

validate_wind_strength(strength) == ~(strength > WIND_STRENGTH_LIMIT)

\* Option::unwrap_or_default on a list field of the request.
unwrap_or_default(opt) == IF opt = None THEN <<>> ELSE opt[1]

validate_create_plan(input) ==
    /\ validate_name(input.name)
    /\ validate_map_id(input.map_id)
    /\ validate_weapon_ids(input.weapon_ids)
    /\ input.gun_positions # None =>
           validate_positions(input.gun_positions[1])
    /\ input.target_positions # None =>
           validate_positions(input.target_positions[1])
    /\ input.spotter_positions # None =>
           validate_positions(input.spotter_positions[1])
    /\ input.gun_target_indices # None =>
           validate_gun_target_indices(
               input.gun_target_indices[1],
               Len(unwrap_or_default(input.target_positions)))
    /\ input.wind_direction # None =>
           validate_wind_direction(input.wind_direction[1])
    /\ input.wind_strength # None =>
           validate_wind_strength(input.wind_strength[1])

\* models::Plan built from a request.
PlanFrom(input) ==
    [name |-> input.name,
     map_id |-> input.map_id,
     weapon_ids |-> input.weapon_ids,
     gun_positions |-> unwrap_or_default(input.gun_positions),
     target_positions |-> unwrap_or_default(input.target_positions),
     spotter_positions |-> unwrap_or_default(input.spotter_positions),
     gun_target_indices |-> unwrap_or_default(input.gun_target_indices),
     wind_direction |-> input.wind_direction,
     wind_strength |-> IF input.wind_strength = None THEN 0
                       ELSE input.wind_strength[1]]

\* MutationRoot::create_plan on the plans table: the table afterwards.
create_plan(table, input) ==
    IF ~validate_create_plan(input) THEN table
    ELSE Append(table, PlanFrom(input))

\* Storage::count_plans
count_plans(table) == Len(table)

\* ---------------------------------------------------------------------
\* Grid labels (crates/shared/src/grid.rs)
\* ---------------------------------------------------------------------

\* World positions handed to format_grid_coord are in hundredths of a
\* meter, the step of its clamp (MAP_WIDTH_M - 0.01).  A cell is
\* MAP_WIDTH_M / GRID_COLS wide, so m_x / GRID_CELL_WIDTH_M is the fraction
\* m_x * GRID_COLS / MAP_WIDTH_M.
CENTI == 100

GRID_COLS == 17

GRID_ROWS == 15

\* The bytes from b'A' on, as characters.
UpperCase == <<"A", "B", "C", "D", "E", "F", "G", "H", "I", "J", "K", "L", "M", "N", "O", "P", "Q", "R", "S", "T", "U", "V", "W", "X", "Y", "Z">>

col_letter(col) == UpperCase[col + 1]

\* `as usize` of the float num / den (den > 0): the fraction is cut off
\* and a negative value becomes 0.
as_usize(num, den) == IF num < 0 THEN 0 ELSE num \div den

\* A label whose indices wrap around instead of being held at the last one.
format_grid_coord_wrapping(m_x, m_y) ==
    LET col == ((m_x * GRID_COLS) \div (MAP_WIDTH_M * CENTI)) % GRID_COLS
        row == ((m_y * GRID_ROWS) \div (MAP_HEIGHT_M * CENTI)) % GRID_ROWS
        kx == ((m_x * GRID_COLS * 3) \div (MAP_WIDTH_M * CENTI)) % 3
        ky == ((m_y * GRID_ROWS * 3) \div (MAP_HEIGHT_M * CENTI)) % 3
        keypad == <<<<7, 8, 9>>, <<4, 5, 6>>, <<1, 2, 3>>>>[ky + 1][kx + 1]
    IN  col_letter(col) \o ToString(row + 1) \o "k" \o ToString(keypad)

format_grid_coord(m_x, m_y) ==
    LET cx == Clamp(m_x, 0, MAP_WIDTH_M * CENTI - 1)
        cy == Clamp(m_y, 0, MAP_HEIGHT_M * CENTI - 1)
        col == Min(as_usize(cx * GRID_COLS, MAP_WIDTH_M * CENTI), GRID_COLS - 1)
        row == Min(as_usize(cy * GRID_ROWS, MAP_HEIGHT_M * CENTI), GRID_ROWS - 1)
        \* sub_x * 3.0 and sub_y * 3.0 as fractions of the same denominators
        sub_x3 == (cx * GRID_COLS - col * MAP_WIDTH_M * CENTI) * 3
        sub_y3 == (cy * GRID_ROWS - row * MAP_HEIGHT_M * CENTI) * 3
        kx == Min(as_usize(sub_x3, MAP_WIDTH_M * CENTI), 2)
        ky == Min(as_usize(sub_y3, MAP_HEIGHT_M * CENTI), 2)
        keypad ==
            CASE <<kx, ky>> = <<0, 0>> -> 7
              [] <<kx, ky>> = <<1, 0>> -> 8
              [] <<kx, ky>> = <<2, 0>> -> 9
              [] <<kx, ky>> = <<0, 1>> -> 4
              [] <<kx, ky>> = <<1, 1>> -> 5
              [] <<kx, ky>> = <<2, 1>> -> 6
              [] <<kx, ky>> = <<0, 2>> -> 1
              [] <<kx, ky>> = <<1, 2>> -> 2
              [] <<kx, ky>> = <<2, 2>> -> 3
              [] OTHER -> 5
    IN  col_letter(col) \o ToString(row + 1) \o "k" \o ToString(keypad)

\* No call of format_grid_coord yet.
NoLabel == [position |-> None, label |-> ""]

\* Arguments of the calls, in hundredths of a meter: west and east of the
\* map, its edges, the two sides of the first keypad thirds (42.82 m,
\* 85.65 m) and of the first column line (128.47 m), the middle, and one
\* meter and one step inside the east edge.
GridXs == {-100000, -1, 0, 100, 4282, 4283, 8564, 8565, 12847, 12848, 109200, 218300, 218399, 218400, 218500, 1000000}

\* The same for rows of 126 m: thirds at 42 m and 84 m.
GridYs == {-100000, -1, 0, 100, 4199, 4200, 8399, 8400, 12599, 12600, 94500, 188900, 188999, 189000, 189100, 1000000}

\* ---------------------------------------------------------------------
\* Firing mathematics (crates/shared/src/calc.rs)
\* ---------------------------------------------------------------------

\* An f64 of calc.rs is a pair <<whole, residue>>.  A coordinate or a length
\* is a whole number of meters, an angle a whole number of thousandths of a
\* degree.  The residue is the sign (-1, 0, 1) of a rounding residue of the
\* trigonometric functions, such as sin(pi) = 1.2e-16: it is a value of its
\* own next to a whole part of zero and is below the rounding unit, hence
\* lost, next to any other whole part.
F(n) == <<n, 0>>

Sign(n) == IF n < 0 THEN -1 ELSE IF n > 0 THEN 1 ELSE 0

\* x < 0.0
Lt0(x) == x[1] < 0 \/ (x[1] = 0 /\ x[2] < 0)

\* f64 addition, rounded to nearest.
fadd(x, y) ==
    IF x[1] = 0 /\ y[1] = 0 THEN <<0, Sign(x[2] + y[2])>>
    ELSE <<x[1] + y[1], 0>>

\* f64 negation.
fneg(x) == <<-x[1], -x[2]>>

\* f64 subtraction.
fsub(x, y) == fadd(x, fneg(y))

\* The product of an f64 and a whole number.
fmul(x, n) == <<x[1] * n, x[2] * Sign(n)>>

\* A Position with whole coordinates.
Position(x, y) == <<F(x), F(y)>>

\* Thousandths in a degree.
DEG == 1000

WIND_DRIFT_PER_LEVEL == 8

\* distance: dx and dy are whole here or residues, whose squares vanish
\* next to any other term; the root is rounded down to a whole meter.
distance(a, b) ==
    LET dx == fsub(b[1], a[1])
        dy == fsub(b[2], a[2])
    IN  ISqrt(dx[1] * dx[1] + dy[1] * dy[1])

\* atan(n / d) in thousandths of a degree for 0 <= n <= d, d > 0: the
\* approximation z * (45 + 15.66 * (1 - z)) of z = n / d, which is exact at
\* 0 and at 1 and within 0.3 degree in between, and never rounds an angle
\* that is not zero to zero.
atan_unit(n, d) ==
    LET z == (n * 1000) \div d
        a == (z * (45 * DEG + (1566 * (1000 - z)) \div 100)) \div 1000
    IN  IF n = 0 THEN 0 ELSE Max(1, a)

\* f64::atan2(y, x).to_degrees().  A zero x is the negative zero the caller
\* makes by negating a zero difference.
atan2_deg(y, x) ==
    IF x[1] = 0 /\ y[1] = 0 THEN
        IF y[2] = 0 THEN (IF x[2] > 0 THEN F(0) ELSE F(180 * DEG))
        ELSE IF x[2] = 0 THEN F(y[2] * 90 * DEG)
        ELSE IF x[2] > 0 THEN F(y[2] * 45 * DEG)
        ELSE F(y[2] * 135 * DEG)
    ELSE IF x[1] = 0 THEN F(Sign(y[1]) * 90 * DEG)
    ELSE IF y[1] = 0 THEN
        IF x[1] > 0 THEN <<0, y[2]>>
        ELSE IF y[2] < 0 THEN F(-180 * DEG) ELSE F(180 * DEG)
    ELSE
        LET n == Abs(y[1])
            d == Abs(x[1])
            acute == IF n <= d THEN atan_unit(n, d)
                     ELSE 90 * DEG - atan_unit(d, n)
        IN  IF x[1] > 0 THEN F(Sign(y[1]) * acute)
            ELSE F(Sign(y[1]) * (180 * DEG - acute))

\* azimuth, in thousandths of a degree.
azimuth(gun, target) ==
    LET dx == fsub(target[1], gun[1])
        dy == fsub(target[2], gun[2])
        deg == atan2_deg(dx, fneg(dy))
    IN  IF Lt0(deg) THEN fadd(deg, F(360 * DEG))[1] ELSE deg[1]

\* Thousandths in a meter of accuracy radius.
MILLI == 1000

\* accuracy_radius without the clamp of t: the radius is extrapolated
\* outside the range.
accuracy_radius_unclamped(weapon, dist) ==
    LET range_span == weapon.max_range - weapon.min_range
        t == ((dist - weapon.min_range) * MILLI) \div range_span
    IN  IF range_span <= 0 THEN weapon.acc_radius[1] * MILLI
        ELSE weapon.acc_radius[1] * MILLI
                 + t * (weapon.acc_radius[2] - weapon.acc_radius[1])

\* accuracy_radius, in thousandths of a meter; t is held in thousandths.
accuracy_radius(weapon, dist) ==
    LET range_span == weapon.max_range - weapon.min_range
        t == Clamp(((dist - weapon.min_range) * MILLI) \div range_span,
                   0, MILLI)
    IN  IF range_span <= 0 THEN weapon.acc_radius[1] * MILLI
        ELSE weapon.acc_radius[1] * MILLI
                 + t * (weapon.acc_radius[2] - weapon.acc_radius[1])

\* f64::sin and f64::cos of a whole multiple of 90 degrees given in
\* radians: sin(pi) is 1.2e-16, cos(pi / 2) is 6.1e-17 and cos(3 pi / 2) is
\* -1.8e-16.
sin_deg(d) ==
    IF d = 0 THEN F(0) ELSE IF d = 90 THEN F(1)
    ELSE IF d = 180 THEN <<0, 1>> ELSE F(-1)

cos_deg(d) ==
    IF d = 0 THEN F(1) ELSE IF d = 90 THEN <<0, 1>>
    ELSE IF d = 180 THEN F(-1) ELSE <<0, -1>>

\* wind_offset: the drift vector <<dx, dy>> of a WindInput whose direction
\* is a whole multiple of 90 degrees.
wind_offset(wind) ==
    LET strength_m == wind.strength * WIND_DRIFT_PER_LEVEL
        push_dir == (wind.direction + 180) % 360
    IN  <<fmul(sin_deg(push_dir), strength_m),
          fneg(fmul(cos_deg(push_dir), strength_m))>>

\* firing_solution that adjusts for every wind it is given, whatever its
\* strength.
firing_solution_any_wind(gun, target, weapon, wind) ==
    LET dist == distance(gun, target)
        w == wind_offset(wind[1])
        compensated == <<fsub(target[1], w[1]), fsub(target[2], w[2])>>
    IN  [azimuth |-> azimuth(gun, target),
         distance |-> dist,
         in_range |-> dist >= weapon.min_range /\ dist <= weapon.max_range,
         accuracy_radius |-> accuracy_radius(weapon, dist),
         wind_adjusted_azimuth |->
             IF wind # None THEN Some(azimuth(gun, compensated)) ELSE None,
         wind_adjusted_distance |->
             IF wind # None THEN Some(distance(gun, compensated)) ELSE None,
         wind_offset_meters |->
             IF wind # None
             THEN Some(ISqrt(w[1][1] * w[1][1] + w[2][1] * w[2][1]))
             ELSE None]

\* firing_solution with both bounds of the range exclusive.
firing_solution_exclusive(gun, target, weapon, wind) ==
    LET dist == distance(gun, target)
        w == wind_offset(wind[1])
        compensated == <<fsub(target[1], w[1]), fsub(target[2], w[2])>>
        windy == wind # None /\ wind[1].strength > 0
    IN  [azimuth |-> azimuth(gun, target),
         distance |-> dist,
         in_range |-> dist > weapon.min_range /\ dist < weapon.max_range,
         accuracy_radius |-> accuracy_radius(weapon, dist),
         wind_adjusted_azimuth |->
             IF windy THEN Some(azimuth(gun, compensated)) ELSE None,
         wind_adjusted_distance |->
             IF windy THEN Some(distance(gun, compensated)) ELSE None,
         wind_offset_meters |->
             IF windy
             THEN Some(ISqrt(w[1][1] * w[1][1] + w[2][1] * w[2][1]))
             ELSE None]

\* firing_solution; wind is an Option<WindInput>.
firing_solution(gun, target, weapon, wind) ==
    LET dist == distance(gun, target)
        az == azimuth(gun, target)
        in_range == dist >= weapon.min_range /\ dist <= weapon.max_range
        acc == accuracy_radius(weapon, dist)
        w == wind_offset(wind[1])
        drift_magnitude == ISqrt(w[1][1] * w[1][1] + w[2][1] * w[2][1])
        compensated == <<fsub(target[1], w[1]), fsub(target[2], w[2])>>
        windy == wind # None /\ wind[1].strength > 0
    IN  [azimuth |-> az,
         distance |-> dist,
         in_range |-> in_range,
         accuracy_radius |-> acc,
         wind_adjusted_azimuth |->
             IF windy THEN Some(azimuth(gun, compensated)) ELSE None,
         wind_adjusted_distance |->
             IF windy THEN Some(distance(gun, compensated)) ELSE None,
         wind_offset_meters |->
             IF windy THEN Some(drift_magnitude) ELSE None]

\* ---------------------------------------------------------------------
\* The calculate query (backend graphql/mod.rs, frontend api.rs)
\* ---------------------------------------------------------------------

\* The weapons of the assets directory, which is not part of the sources:
\* one weapon with the slug that KnownWeapons holds, here with the ranges
\* and radii of the weapon of the tests of calc.rs.
Weapons ==
    << [slug |-> "mortar", min_range |-> 100, max_range |-> 300,
        acc_radius |-> <<10, 30>>] >>

\* Assets::find_weapon_by_slug
find_weapon_by_slug(assets, slug) ==
    LET found == {j \in 1..Len(assets) : assets[j].slug = slug}
    IN  IF found = {} THEN None
        ELSE Some(assets[CHOOSE j \in found : \A k \in found : j <= k])

\* A position of a request, held in 1/128 m and 1/148 m, as the Position
\* that calc.rs works on.
PositionOf(m) == Position(m[1] \div MPP_X_DEN, m[2] \div MPP_Y_DEN)

\* Values of a u8.
U8 == 256

\* QueryRoot::calculate of a server that loaded the weapons `assets`.  A
\* Result is an Option: Ok(x) is Some(x) and an Err is None.  The strength
\* of a request is a u32.
calculate(assets, input) ==
    LET weapon == find_weapon_by_slug(assets, input.weapon_id)
        gun == PositionOf(input.gun_position)
        target == PositionOf(input.target_position)
        wind == IF input.wind = None THEN None
                ELSE Some([direction |-> input.wind[1].direction,
                           strength |-> input.wind[1].strength % U8])
    IN  IF weapon = None THEN None
        ELSE Some(firing_solution(gun, target, weapon[1], wind))

\* api::build_calculate_variables: the input object of the query.
build_calculate_variables(gun, target, weapon_id, w_dir, w_str) ==
    [gun_position |-> gun,
     target_position |-> target,
     weapon_id |-> weapon_id,
     wind |-> IF /\ w_dir # None
                 /\ w_str # None
                 /\ w_str[1] > 0
              THEN Some([direction |-> w_dir[1],
                         strength |-> w_str[1]])
              ELSE None]

\* api::calculate: the query answered by the server, or failed on the way
\* (delivered = FALSE).
api_calculate(gun, target, weapon_id, w_dir, w_str, delivered) ==
    IF ~delivered THEN None
    ELSE calculate(Weapons, build_calculate_variables(gun, target, weapon_id,
                                                      w_dir, w_str))

\* ---------------------------------------------------------------------
\* Firing solutions on the client (pages/planner.rs, map_view.rs)
\* ---------------------------------------------------------------------

\* slice.get(i) for a 0-based i that may be out of range.
Get(v, i) == IF 0 <= i /\ i < Len(v) THEN Some(v[i + 1]) ELSE None

\* pairings.get(i).and_then(|o| *o)
target_idx_of(pairings, i) ==
    IF Get(pairings, i) = None THEN None ELSE Get(pairings, i)[1]

\* target_idx.and_then(|ti| targets.get(ti)): the paired target of gun i.
t_px_of(pairings, targets, i) ==
    IF target_idx_of(pairings, i) = None THEN None
    ELSE Get(targets, target_idx_of(pairings, i)[1])

\* build_firing_lines with the pairing index clamped to the last target
\* instead of checked.
build_firing_lines_clamped(guns, targets, pairings) ==
    [j \in 1..Len(guns) |->
        IF target_idx_of(pairings, j - 1) = None \/ targets = <<>> THEN None
        ELSE Some(<<guns[j],
                    targets[Min(target_idx_of(pairings, j - 1)[1] + 1,
                                Len(targets))]>>)]

\* build_firing_lines: per gun, the line drawn for it (its two ends) or
\* None.
build_firing_lines(guns, targets, pairings) ==
    [j \in 1..Len(guns) |->
        IF t_px_of(pairings, targets, j - 1) = None THEN None
        ELSE Some(<<guns[j], t_px_of(pairings, targets, j - 1)[1]>>)]

\* build_accuracy_circles: per gun, the circle drawn for it (centre and
\* radius) or None.
build_accuracy_circles(guns, targets, pairings, radii_px) ==
    [j \in 1..Len(guns) |->
        LET acc_r == IF Get(radii_px, j - 1) = None THEN None
                     ELSE Get(radii_px, j - 1)[1]
        IN  IF target_idx_of(pairings, j - 1) = None \/ acc_r = None
            THEN None
            ELSE IF t_px_of(pairings, targets, j - 1) = None THEN None
            ELSE Some(<<t_px_of(pairings, targets, j - 1)[1], acc_r[1]>>)]

\* grid::meters_to_px_distance on thousandths: the average of the two
\* scales, 1024 / 2184 and 888 / 1890, is 0.4694.
AVG_SCALE_NUM == 4694

AVG_SCALE_DEN == 10000

meters_to_image_px(meters) == (meters * AVG_SCALE_NUM) \div AVG_SCALE_DEN

\* The accuracy_radii_px memo of Planner.
accuracy_radii_px(solutions) ==
    [j \in 1..Len(solutions) |->
        IF solutions[j] = None THEN None
        ELSE Some(meters_to_image_px(solutions[j][1].accuracy_radius))]

\* The values _calc_effect clones from the signals when it starts.
calc_inputs(s) ==
    [gun_wids |-> s.gun_weapon_ids,
     guns |-> s.gun_positions,
     targets |-> s.target_positions,
     pairings |-> s.gun_target_indices,
     w_dir |-> s.wind_direction,
     w_str |-> s.wind_strength]

\* gun_wids.get(i).cloned().unwrap_or_default()
wid_of(in, i) == IF Get(in.gun_wids, i) = None THEN "" ELSE Get(in.gun_wids, i)[1]

\* The loop body of _calc_effect reaches api::calculate for gun i.
calls_calculate(in, i) ==
    ~(wid_of(in, i) = "" \/ t_px_of(in.pairings, in.targets, i) = None)

\* What the awaited api::calculate of gun i returns.
calculate_for(in, i, delivered) ==
    api_calculate(px_to_meters(in.guns[i + 1]),
                  px_to_meters(t_px_of(in.pairings, in.targets, i)[1]),
                  wid_of(in, i), in.w_dir, Some(in.w_str), delivered)

\* The state after the first render of a page without guns: the first run
\* of the resource has set the empty list and is over.
InitialCalc == [firing_solutions |-> <<>>, task |-> None, stale |-> FALSE]

\* The task runs until its next await or its end: it pushes None for each
\* gun that needs no call and sets the signal after the last gun.
RECURSIVE run_task(_, _, _)
run_task(c, in, results) ==
    IF Len(results) = Len(in.guns)
    THEN [c EXCEPT !.firing_solutions = results, !.task = None]
    ELSE IF calls_calculate(in, Len(results))
    THEN [c EXCEPT !.task = Some([in |-> in, results |-> results])]
    ELSE run_task(c, in, Append(results, None))

\* use_resource leaving a running task alone: the run that is due is
\* dropped and the task goes on with the values it cloned.
calc_effect_no_cancel(c, s) ==
    IF c.task # None THEN [c EXCEPT !.stale = FALSE]
    ELSE IF calc_inputs(s).guns = <<>>
    THEN [c EXCEPT !.stale = FALSE, !.firing_solutions = <<>>]
    ELSE run_task([c EXCEPT !.stale = FALSE], calc_inputs(s), <<>>)

\* use_resource (re)starts _calc_effect: the task of the previous run is
\* cancelled, the closure clones the signals and the new task runs to its
\* first await.
calc_effect(c, s) ==
    LET fresh == [c EXCEPT !.task = None, !.stale = FALSE]
    IN  IF calc_inputs(s).guns = <<>>
        THEN [fresh EXCEPT !.firing_solutions = <<>>]
        ELSE run_task(fresh, calc_inputs(s), <<>>)

\* _calc_effect giving up at the first failed call: the task ends and the
\* signal keeps the list of the previous run.
calc_resume_abort(c, delivered) ==
    LET t == c.task[1]
        r == calculate_for(t.in, Len(t.results), delivered)
    IN  IF r = None THEN [c EXCEPT !.task = None]
        ELSE run_task(c, t.in, Append(t.results, r))

\* The awaited api::calculate returns to the running task.
calc_resume(c, delivered) ==
    LET t == c.task[1]
        r == calculate_for(t.in, Len(t.results), delivered)
    IN  run_task(c, t.in, Append(t.results, r))

\* A handler took the signals from s to t: the resource is due again when
\* a signal it read has changed.  (A write of an equal value makes it due
\* too; that run starts from the inputs of the run it cancels.)
calc_notify(c, s, t) ==
    IF calc_inputs(s) # calc_inputs(t) THEN [c EXCEPT !.stale = TRUE] ELSE c

\* ---------------------------------------------------------------------
\* The calculate query of a client of the API
\* ---------------------------------------------------------------------

\* No query has been sent to a server with the weapons of the assets.
NoQuery == [assets |-> Weapons, input |-> None, answer |-> None]

\* The weapons a server may have loaded: those of Weapons, or one weapon of
\* the same slug whose two ranges are equal.
WeaponTables ==
    { Weapons,
      << [slug |-> "mortar", min_range |-> 100, max_range |-> 100,
          acc_radius |-> <<10, 30>>] >> }

\* A position of a request at whole meters, in the units of px_to_meters.
Meters(x, y) == <<x * MPP_X_DEN, y * MPP_Y_DEN>>

\* Gun positions of the queries.
QueryGuns == {<<0, 0>>, <<100, 100>>}

\* Displacements from gun to target: none; the four compass points at 99,
\* 100, 200, 300, 301 and 500 m; the diagonals; and directions next to
\* north.  Each has a whole length or one that is not within a meter of
\* 100 or 300.
QueryDisplacements ==
    {<<0, 0>>}
        \cup {<<0, -d>> : d \in {99, 100, 200, 300, 301, 500}}
        \cup {<<d, 0>> : d \in {100, 200, 500}}
        \cup {<<0, d>> : d \in {100, 200}}
        \cup {<<-d, 0>> : d \in {100, 300}}
        \cup {<<100, -100>>, <<100, 100>>, <<-100, 100>>, <<-100, -100>>}
        \cup {<<180, -240>>, <<-24, -200>>, <<-1, -200>>, <<24, -32>>}

\* Wind strengths of the queries (u32).
QueryStrengths == {0, 1, 3, 5, 256, 259}

\* Wind directions of the queries, in degrees.
QueryDirections == {0, 90, 180, 270}

QueryWinds ==
    {None} \cup {Some([direction |-> d, strength |-> s]) :
                     d \in QueryDirections, s \in QueryStrengths}

\* The input objects a client sends.
QueryInputs ==
    { [gun_position |-> Meters(g[1], g[2]),
       target_position |-> Meters(g[1] + d[1], g[2] + d[2]),
       weapon_id |-> w,
       wind |-> wind] :
          g \in QueryGuns, d \in QueryDisplacements,
          w \in {"mortar", "cannon-x"}, wind \in QueryWinds }

\* ---------------------------------------------------------------------
\* Events
\* ---------------------------------------------------------------------

\* Room for one more snapshot within a history bound of the model.
HistoryRoom(bound) == Len(undo_stack) + Len(redo_stack) < bound

\* The click would append to a list that is already MaxMarkers long.
GrowsPastBound(s, click, zoom) ==
    /\ s.selected_marker = None
    /\ \/ s.placement_mode = "Gun" /\ Len(s.gun_positions) >= MaxMarkers
       \/ /\ s.placement_mode = "Target"
          /\ Len(s.target_positions) >= MaxMarkers
          /\ find_nearest(s.target_positions, click, Threshold(zoom)) = None
       \/ s.placement_mode = "Spotter" /\ Len(s.spotter_positions) >= MaxMarkers

\* At least one firing solution can be on display: some gun has a weapon and
\* a pairing with an existing target.
HasAnySolution(s) ==
    \E j \in 1..Len(s.gun_positions) :
        /\ j <= Len(s.gun_weapon_ids)
        /\ s.gun_weapon_ids[j] # ""
        /\ j <= Len(s.gun_target_indices)
        /\ s.gun_target_indices[j] # None
        /\ s.gun_target_indices[j][1] < Len(s.target_positions)

\* onmouseup / ontouchend of a press that stayed a click, position resolved.
ClickWithin(bound) ==
    \E click \in Points, zoom \in Zooms :
        /\ ~panicked
        /\ HistoryRoom(bound)
        /\ ~GrowsPastBound(St, click, zoom)
        /\ Apply(handle_marker_placement(St, click, zoom))

RightClickWithin(bound) ==
    \E click \in Points, zoom \in Zooms :
        /\ ~panicked
        /\ (HistoryRoom(bound) \/ RemovalVictim(St, click, zoom) = None)
        /\ Apply(oncontextmenu(St, click, zoom))

DeleteWithin(bound) ==
    /\ ~panicked
    /\ (HistoryRoom(bound) \/ selected_marker = None)
    /\ Apply(KeyDelete(St))

ChangeMapWithin(bound) ==
    \E value \in Maps \ {selected_map} :
        /\ ~panicked
        /\ HistoryRoom(bound)
        /\ Apply(MapOnChange(St, value))

Click == ClickWithin(MaxHistory)

RightClick == RightClickWithin(MaxHistory)

Delete == DeleteWithin(MaxHistory)

ChangeMap == ChangeMapWithin(MaxHistory)

\* An undo that puts the view back to its initial transform, as a restore
\* that re-mounted MapView would.
Undo_remounting_view == ~panicked /\ ApplyPointer(KeyUndo(St), reset_view(view))

Undo == ~panicked /\ Apply(KeyUndo(St))

Redo == ~panicked /\ Apply(KeyRedo(St))

SelectMarker ==
    \E kind \in Kinds :
        \E i \in 0..(Len(MarkerList(St, kind)) - 1) :
            ~panicked /\ Apply(MarkerItemOnClick(St, kind, i))

ChooseMode ==
    \E mode \in Kinds \ {placement_mode} :
        ~panicked /\ Apply(SetPlacementMode(St, mode))

Escape == ~panicked /\ selected_marker # None /\ Apply(KeyEscape(St))

\* Events of the side panel that edit wind and weapons.
SetWindDirection ==
    \E deg \in WindDegs : ~panicked /\ Apply(WindDirOnClick(St, deg))

SetWindStrength ==
    \E v \in WindStrengths \ {wind_strength} :
        ~panicked /\ Apply(WindStrengthOnChange(St, v))

SelectWeapon ==
    \E slug \in Slugs \ {selected_weapon} :
        ~panicked /\ Apply(WeaponSelectorOnChange(St, slug))

\* The inline select is rendered for a selected gun of a displayed pair.
ChangeGunWeapon ==
    \E slug \in Slugs :
        /\ ~panicked
        /\ selected_marker # None
        /\ selected_marker[1].kind = "Gun"
        /\ selected_marker[1].index < Min(Len(gun_positions), Len(target_positions))
        /\ HasAnySolution(St)
        /\ selected_marker[1].index < Len(gun_weapon_ids)
        /\ slug # gun_weapon_ids[selected_marker[1].index + 1]
        /\ Apply(InlineWeaponOnChange(St, selected_marker[1].index, slug))

EditClick == ClickWithin(MaxEditHistory)

EditRightClick == RightClickWithin(MaxEditHistory)

EditDelete == DeleteWithin(MaxEditHistory)

EditChangeMap == ChangeMapWithin(MaxEditHistory)

\* Events of the deep-history runs: spotters only, so that the placement
\* mode stays put and a run is determined by its counts.
LongSpotterMode ==
    /\ ~panicked
    /\ placement_mode # "Spotter"
    /\ Apply(SetPlacementMode(St, "Spotter"))

LongClick ==
    \E click \in (IF spotter_positions = <<>> THEN Points ELSE {PA}) :
        /\ ~panicked
        /\ placement_mode = "Spotter"
        /\ selected_marker = None
        /\ Len(spotter_positions) < MaxPlacements
        /\ Apply(handle_marker_placement(St, click, ZOOM_MIN))

\* ---------------------------------------------------------------------
\* Pointer events on the map container
\* ---------------------------------------------------------------------

\* The pointer is over the container.
InRect(client) ==
    /\ 0 <= client[1] /\ client[1] <= view.rect[1]
    /\ 0 <= client[2] /\ client[2] <= view.rect[2]

\* The view when one more gesture begins, within the bound of SpecView.
GestureRoom == view.gestures < MaxGestures

Begun(v) == [v EXCEPT !.gestures = @ + 1]

\* A pointer handler result within the history bound of SpecView.
ViewRoom(s) == s # St => Len(undo_stack) < MaxViewHistory

Wheel ==
    \E cursor \in WheelCursors, delta_y \in {-1, 1} :
        /\ ~panicked
        /\ InRect(cursor)
        /\ GestureRoom
        /\ ApplyView(Begun(onwheel(view, cursor, delta_y)))

MouseDown ==
    \E client \in MousePresses, button \in Buttons :
        /\ ~panicked
        /\ InRect(client)
        /\ GestureRoom
        /\ ApplyView(Begun(onmousedown(view, client, button)))

MouseMove ==
    \E client \in MouseMoves :
        /\ ~panicked
        /\ InRect(client)
        /\ ApplyView(onmousemove(view, client))

MouseUp ==
    \E client \in MousePresses \cup MouseMoves :
        /\ ~panicked
        /\ InRect(client)
        /\ ViewRoom(onmouseup(St, view, client))
        /\ ApplyPointer(onmouseup(St, view, client), onmouseup_view(view))

MouseLeave ==
    /\ ~panicked
    /\ ApplyView(onmouseleave(view))

ContextMenu ==
    \E client \in MousePresses :
        /\ ~panicked
        /\ InRect(client)
        /\ ViewRoom(oncontextmenu_at(St, view, client))
        /\ ApplyPointer(oncontextmenu_at(St, view, client), view)

DoubleClick ==
    /\ ~panicked
    /\ ApplyView(ondoubleclick(view))

\* The "r" key.
ResetView ==
    /\ ~panicked
    /\ ApplyView(reset_view(view))

\* A finger comes down: at most two are on the screen.
TouchStart ==
    \E client \in (IF view.touches = <<>> THEN FirstTouches
                    ELSE SecondTouches) :
        /\ ~panicked
        /\ InRect(client)
        /\ Len(view.touches) < 2
        /\ GestureRoom
        /\ LET touches == Append(view.touches, client)
               v == [view EXCEPT !.touches = touches,
                                 !.multi = @ \/ Len(touches) >= 2]
           IN  ApplyView(Begun(ontouchstart(v, touches)))

\* One of the fingers on the screen moves.
TouchMove ==
    \E i \in 1..Len(view.touches),
       client \in FirstTouchMoves \cup SecondTouchMoves :
        /\ ~panicked
        /\ client \in (IF i = 1 THEN FirstTouchMoves ELSE SecondTouchMoves)
        /\ InRect(client)
        /\ client # view.touches[i]
        /\ LET touches == [view.touches EXCEPT ![i] = client]
           IN  ApplyView(ontouchmove([view EXCEPT !.touches = touches],
                                     touches))

\* One of the fingers is lifted.
TouchEnd ==
    \E i \in 1..Len(view.touches) :
        LET touches == VecRemove(view.touches, i - 1)
            v == [view EXCEPT !.touches = touches,
                              !.multi = @ /\ touches # <<>>]
        IN  /\ ~panicked
            /\ ViewRoom(ontouchend(St, view, Len(touches)))
            /\ ApplyPointer(ontouchend(St, view, Len(touches)),
                            ontouchend_view(v, Len(touches)))

\* The browser takes the touch sequence away: no finger is reported any
\* more.
TouchCancel ==
    /\ ~panicked
    /\ view.touches # <<>>
    /\ ApplyView(ontouchcancel([view EXCEPT !.touches = <<>>,
                                             !.multi = FALSE]))

\* A createPlan request as an API client sends it.
Request(name, map_id, weapon_ids, guns, targets, spotters, pairings, w_dir, w_str) ==
    [name |-> name,
     map_id |-> map_id,
     weapon_ids |-> weapon_ids,
     gun_positions |-> guns,
     target_positions |-> targets,
     spotter_positions |-> spotters,
     gun_target_indices |-> pairings,
     wind_direction |-> w_dir,
     wind_strength |-> w_str]

\* A name of n one-byte characters.
Ascii(n) == [chars |-> n, bytes |-> n]

\* Two guns and a target, in the units of px_to_meters.
TwoGuns == Some(all_px_to_meters(<<PA, PB>>))

OneTarget == Some(all_px_to_meters(<<PA>>))

\* Requests for plans with two guns: one as the front end saves it, one
\* with a single weapon id, one with a single pairing, one without weapon
\* ids and pairings.
LoadInputs ==
    { Request(Ascii(4), "map-a", <<"mortar", "mortar">>, TwoGuns, OneTarget,
              None, Some(<<Some(0), None>>), None, None),
      Request(Ascii(4), "map-a", <<"mortar">>, TwoGuns, OneTarget,
              None, Some(<<Some(0), None>>), None, None),
      Request(Ascii(4), "map-a", <<"mortar", "mortar">>, TwoGuns, OneTarget,
              None, Some(<<Some(0)>>), None, None),
      Request(Ascii(4), "map-a", <<>>, TwoGuns, None,
              None, None, None, None) }

\* The createPlan mutation, called by any client of the API.
CreatePlanWithin(inputs, bound) ==
    \E input \in inputs :
        /\ Len(plans) < bound
        /\ plans' = create_plan(plans, input)
        /\ UNCHANGED <<signals, view, calc, query, grid>>

CreatePlanLoad == CreatePlanWithin(LoadInputs, MaxLoadPlans)

\* A request with one gun and one target, as the front end saves it.
BaseRequest ==
    Request(Ascii(4), "map-a", <<"mortar">>,
            Some(all_px_to_meters(<<PB>>)), OneTarget, None,
            Some(<<Some(0)>>), None, None)

\* A name of 100 two-byte characters, and one of 150.
TwoByteName(n) == [chars |-> n, bytes |-> 2 * n]

\* The far corner of the map, and positions just outside it.
FarCorner == <<MAP_WIDTH_M * MPP_X_DEN, MAP_HEIGHT_M * MPP_Y_DEN>>

\* Requests that differ from BaseRequest in one field (or in the pairings
\* and the targets): names at and over the limit, a known and an unknown
\* map, weapon ids of every sort, positions on and off the map and not a
\* number, pairing indices in and out of range with one, no and omitted
\* targets, wind values at and over their limits.
ServerInputs ==
    {BaseRequest}
    \cup {[BaseRequest EXCEPT !.name = n] :
             n \in {Ascii(NAME_LIMIT), Ascii(NAME_LIMIT + 1),
                    TwoByteName(100), TwoByteName(150)}}
    \cup {[BaseRequest EXCEPT !.map_id = m] : m \in {"map-b", "map-x"}}
    \cup {[BaseRequest EXCEPT !.weapon_ids = w] :
             w \in {<<"">>, <<UNASSIGNED_WEAPON>>, <<"mortar", "cannon-x">>,
                    <<>>}}
    \cup {[BaseRequest EXCEPT !.gun_positions = Some(<<pos>>)] :
             pos \in {<<0, 0>>, FarCorner, <<-1, 0>>, <<0, -1>>,
                      <<FarCorner[1] + 1, 0>>, <<0, FarCorner[2] + 1>>,
                      <<NaN, 0>>, <<0, NaN>>}}
    \cup {[BaseRequest EXCEPT !.target_positions = Some(<<<<0, -1>>>>)],
          [BaseRequest EXCEPT !.spotter_positions = Some(<<<<NaN, 0>>>>)],
          [BaseRequest EXCEPT !.spotter_positions = Some(<<<<0, 0>>>>)]}
    \cup {[BaseRequest EXCEPT !.gun_target_indices = Some(<<i>>)] :
             i \in {None, Some(1), Some(-1)}}
    \cup {[BaseRequest EXCEPT !.gun_target_indices = Some(<<Some(0)>>),
                              !.target_positions = t] :
             t \in {None, Some(<<>>)}}
    \cup {[BaseRequest EXCEPT !.gun_target_indices = None]}
    \cup {[BaseRequest EXCEPT !.wind_direction = Some(d)] :
             d \in {0, 359, 360, -1, NaN}}
    \cup {[BaseRequest EXCEPT !.wind_strength = Some(k)] :
             k \in {0, WIND_STRENGTH_LIMIT, WIND_STRENGTH_LIMIT + 1}}

CreatePlan == CreatePlanWithin(ServerInputs, MaxPlans)

\* The signals right after construction (use_signal initial values), the
\* map defaulted to the first catalog entry.
Fresh(pid) ==
    [gun_positions |-> <<>>,
     target_positions |-> <<>>,
     spotter_positions |-> <<>>,
     gun_weapon_ids |-> <<>>,
     gun_target_indices |-> <<>>,
     wind_direction |-> None,
     wind_strength |-> 0,
     selected_marker |-> None,
     placement_mode |-> "Gun",
     selected_weapon |-> "",
     selected_map |-> "map-a",
     undo_stack |-> <<>>,
     redo_stack |-> <<>>,
     panicked |-> FALSE,
     plan_id |-> pid]

InitSignals(s) ==
    /\ gun_positions = s.gun_positions
    /\ target_positions = s.target_positions
    /\ spotter_positions = s.spotter_positions
    /\ gun_weapon_ids = s.gun_weapon_ids
    /\ gun_target_indices = s.gun_target_indices
    /\ wind_direction = s.wind_direction
    /\ wind_strength = s.wind_strength
    /\ selected_marker = s.selected_marker
    /\ placement_mode = s.placement_mode
    /\ selected_weapon = s.selected_weapon
    /\ selected_map = s.selected_map
    /\ undo_stack = s.undo_stack
    /\ redo_stack = s.redo_stack
    /\ panicked = s.panicked
    /\ plan_id = s.plan_id

InitWith(s) ==
    /\ InitSignals(s)
    /\ view = InitialView(<<800, 600>>)
    /\ plans = <<>>
    /\ calc = InitialCalc
    /\ query = NoQuery
    /\ grid = NoLabel

\* The page is opened without a plan id, or with the id of a stored plan
\* whose fetch has resolved before the first input event.
Init ==
    \E pid \in {None} \cup {Some(i) : i \in 1..Len(StoredPlans)} :
        InitWith(IF pid = None THEN Fresh(pid)
                 ELSE plan_loader(Fresh(pid), StoredPlans[pid[1]]))

InitFresh == InitWith(Fresh(None))

InitEdit ==
    \E pid \in {None} \cup {Some(i) : i \in EditPlans} :
        InitWith(IF pid = None THEN Fresh(pid)
                 ELSE plan_loader(Fresh(pid), StoredPlans[pid[1]]))

Next ==
    \/ Click
    \/ RightClick
    \/ Undo
    \/ Redo
    \/ Delete
    \/ ChangeMap
    \/ SelectMarker
    \/ ChooseMode
    \/ Escape

\* Marker operations and undo/redo, from the empty plan or a stored plan.
Spec == Init /\ [][Next]_vars

\* The page opened without a plan, in one of the containers.
InitView ==
    \E rect \in Rects :
        /\ InitSignals(Fresh(None))
        /\ view = InitialView(rect)
        /\ plans = <<>>
        /\ calc = InitialCalc
        /\ query = NoQuery
        /\ grid = NoLabel

NextView ==
    \/ Wheel
    \/ MouseDown
    \/ MouseMove
    \/ MouseUp
    \/ MouseLeave
    \/ ContextMenu
    \/ DoubleClick
    \/ ResetView
    \/ TouchStart
    \/ TouchMove
    \/ TouchEnd
    \/ TouchCancel

\* Pointer, wheel and touch events on the map, from the empty plan.
SpecView == InitView /\ [][NextView]_vars

\* The page is opened with the id of a plan the server holds, and the
\* fetch resolves before the first input event.
OpenPlan ==
    \E i \in 1..Len(plans) :
        /\ St = Fresh(None)
        /\ Apply(plan_loader(Fresh(Some(i)), plans[i]))

LoadClick == ClickWithin(MaxLoadHistory)

LoadRightClick == RightClickWithin(MaxLoadHistory)

LoadDelete == DeleteWithin(MaxLoadHistory)

\* No plan held by the server, the page not opened yet.
InitLoad == InitWith(Fresh(None))

NextLoad ==
    \/ CreatePlanLoad
    \/ OpenPlan
    \/ LoadClick
    \/ LoadRightClick
    \/ LoadDelete
    \/ SelectMarker
    \/ ChooseMode
    \/ Escape

\* A plan stored through the API, opened in the planner and edited.
SpecLoad == InitLoad /\ [][NextLoad]_vars

NextServer == CreatePlan

\* The createPlan mutation alone, from an empty plans table.
SpecServer == InitLoad /\ [][NextServer]_vars

NextEdit ==
    \/ EditClick
    \/ EditRightClick
    \/ Undo
    \/ Redo
    \/ EditDelete
    \/ EditChangeMap
    \/ SelectMarker
    \/ ChooseMode
    \/ Escape
    \/ SetWindDirection
    \/ SetWindStrength
    \/ SelectWeapon
    \/ ChangeGunWeapon

\* The same with the wind and weapon edits of the side panel.
SpecEdit == InitEdit /\ [][NextEdit]_vars

NextLong ==
    \/ LongSpotterMode
    \/ LongClick
    \/ Undo
    \/ Redo

\* Long runs of placements, undos and redos that fill the undo stack.
SpecLong == InitFresh /\ [][NextLong]_vars

\* ---------------------------------------------------------------------
\* The planner with its firing-solution resource
\* ---------------------------------------------------------------------

\* SpecCalc: plans the server holds, and snapshots a run may push.
MaxCalcPlans == 1

MaxCalcHistory == 1

\* A target 140 px south of PA, in the units of px_to_meters.
SouthTarget == Some(all_px_to_meters(<<<<100, 240>>>>))

\* Requests for plans with two guns: one whose second gun has a weapon the
\* server does not know, one whose pairings point at targets it does not
\* have, one without pairings.
CalcInputs ==
    { Request(Ascii(4), "map-a", <<"mortar", "unassigned">>, TwoGuns,
              SouthTarget, None, Some(<<Some(0), Some(0)>>), Some(0), Some(3)),
      Request(Ascii(4), "map-a", <<"mortar", "mortar">>, TwoGuns, None,
              None, Some(<<Some(0), Some(5)>>), None, None),
      Request(Ascii(4), "map-a", <<"mortar", "mortar">>, TwoGuns,
              SouthTarget, None, None, None, None) }

\* A handler of the Planner signals next to the resource that reads them.
ApplyCalc(s) ==
    /\ ApplySignals(s)
    /\ calc' = calc_notify(calc, St, s)
    /\ UNCHANGED <<view, plans, query, grid>>

CalcCreatePlan == CreatePlanWithin(CalcInputs, MaxCalcPlans)

CalcOpenPlan ==
    \E i \in 1..Len(plans) :
        /\ St = Fresh(None)
        /\ ApplyCalc(plan_loader(Fresh(Some(i)), plans[i]))

CalcClick ==
    \E click \in Points :
        /\ ~panicked
        /\ HistoryRoom(MaxCalcHistory)
        /\ ~GrowsPastBound(St, click, ZOOM_MIN)
        /\ ApplyCalc(handle_marker_placement(St, click, ZOOM_MIN))

CalcRightClick ==
    \E click \in Points :
        /\ ~panicked
        /\ (HistoryRoom(MaxCalcHistory)
               \/ RemovalVictim(St, click, ZOOM_MIN) = None)
        /\ ApplyCalc(oncontextmenu(St, click, ZOOM_MIN))

CalcUndo == ~panicked /\ ApplyCalc(KeyUndo(St))

CalcChooseMode ==
    \E mode \in {"Gun", "Target"} \ {placement_mode} :
        ~panicked /\ ApplyCalc(SetPlacementMode(St, mode))

CalcSetWindStrength ==
    \E v \in WindStrengths \ {wind_strength} :
        ~panicked /\ ApplyCalc(WindStrengthOnChange(St, v))

\* use_resource re-runs _calc_effect after a write to a signal it read.
CalcRerun ==
    /\ calc.stale
    /\ calc' = calc_effect(calc, St)
    /\ UNCHANGED <<signals, view, plans, query, grid>>

\* The answer to the outstanding query arrives, or the query fails.
CalcRespond ==
    \E delivered \in BOOLEAN :
        /\ calc.task # None
        /\ calc' = calc_resume(calc, delivered)
        /\ UNCHANGED <<signals, view, plans, query, grid>>

NextCalc ==
    \/ CalcCreatePlan
    \/ CalcOpenPlan
    \/ CalcClick
    \/ CalcRightClick
    \/ CalcUndo
    \/ CalcChooseMode
    \/ CalcSetWindStrength
    \/ CalcRerun
    \/ CalcRespond

\* The planner and its firing-solution resource, from the empty plan or a
\* plan stored through the API.
SpecCalc == InitLoad /\ [][NextCalc]_vars

\* ---------------------------------------------------------------------
\* Calculate queries
\* ---------------------------------------------------------------------

\* A client sends a calculate query.
Ask ==
    \E input \in QueryInputs :
        /\ query.input = None
        /\ query' = [query EXCEPT !.input = Some(input), !.answer = None]
        /\ UNCHANGED <<signals, view, plans, calc, grid>>

\* The server answers it.
Answer ==
    /\ query.input # None
    /\ query.answer = None
    /\ query' = [query EXCEPT
                    !.answer = Some(calculate(query.assets, query.input[1]))]
    /\ UNCHANGED <<signals, view, plans, calc, grid>>

\* A server that loaded one of the weapon tables; no query yet.
InitQuery ==
    \E assets \in WeaponTables :
        /\ InitSignals(Fresh(None))
        /\ view = InitialView(<<800, 600>>)
        /\ plans = <<>>
        /\ calc = InitialCalc
        /\ query = [NoQuery EXCEPT !.assets = assets]
        /\ grid = NoLabel

NextQuery == Ask \/ Answer

\* A calculate query sent to a server and answered; the server keeps
\* nothing from one query to the next.
SpecQuery == InitQuery /\ [][NextQuery]_vars

\* ---------------------------------------------------------------------
\* Grid labels of world positions
\* ---------------------------------------------------------------------

\* A position is formatted as a grid coordinate.
FormatGridCoord ==
    \E m_x \in GridXs, m_y \in GridYs :
        /\ grid' = [position |-> Some(<<m_x, m_y>>),
                    label |-> format_grid_coord(m_x, m_y)]
        /\ UNCHANGED <<signals, view, plans, calc, query>>

NextGrid == FormatGridCoord

SpecGrid == InitFresh /\ [][NextGrid]_vars

\* ---------------------------------------------------------------------
\* Pointer events together with undo and redo
\* ---------------------------------------------------------------------

NextFrame ==
    \/ Wheel
    \/ MouseDown
    \/ MouseMove
    \/ MouseUp
    \/ DoubleClick
    \/ ResetView
    \/ TouchStart
    \/ TouchMove
    \/ TouchEnd
    \/ Undo
    \/ Redo

\* Gestures on the map container interleaved with Ctrl+Z and Ctrl+Shift+Z.
SpecFrame == InitView /\ [][NextFrame]_vars

\* ---------------------------------------------------------------------
\* Properties
\* ---------------------------------------------------------------------

\* The planning state (what a snapshot captures) of the current state.
PlanState == capture_snapshot(St)

PlanOfState(s) == capture_snapshot(s)

\* The live state with the placement mode and the selection set by the
\* mode keys and the marker list, which leave both stacks alone.
Poised(mode, sel) ==
    [St EXCEPT !.placement_mode = mode, !.selected_marker = sel]

Selections ==
    IF spotter_positions = <<>> THEN {None}
    ELSE {None, Some([kind |-> "Spotter", index |-> 0])}

\* C1: the undo stack never holds more than UNDO_LIMIT snapshots, whatever
\* placements, undos and redos came before, and whichever operation comes
\* next (placement, move, removal, map change, undo, redo); redo pushes
\* without the cap.
C1_UndoStackBounded ==
    /\ Len(undo_stack) <= UNDO_LIMIT
    /\ Len(KeyUndo(St).undo_stack) <= UNDO_LIMIT
    /\ Len(KeyRedo(St).undo_stack) <= UNDO_LIMIT
    /\ \A mode \in Kinds, sel \in Selections :
          LET s == Poised(mode, sel)
          IN  /\ Len(KeyDelete(s).undo_stack) <= UNDO_LIMIT
              /\ \A value \in Maps :
                    Len(MapOnChange(s, value).undo_stack) <= UNDO_LIMIT
              /\ \A click \in Points, zoom \in Zooms :
                    /\ Len(handle_marker_placement(s, click, zoom).undo_stack)
                          <= UNDO_LIMIT
                    /\ Len(oncontextmenu(s, click, zoom).undo_stack)
                          <= UNDO_LIMIT

\* The stack is full after more placements than it holds, and redo has
\* refilled it to the top.
C1_Witness ==
    /\ Len(undo_stack) = UNDO_LIMIT
    /\ Len(spotter_positions) > UNDO_LIMIT
    /\ redo_stack = <<>>
    /\ KeyRedo(KeyUndo(St)).undo_stack = undo_stack

\* C2: every planning mutation (placement, move, re-pairing, right-click
\* removal, Delete-key removal) pushes the planning state it starts from,
\* so an undo right after it restores that planning state.
C2_UndoRestoresPriorState ==
    ~panicked =>
        /\ \A click \in Points, zoom \in Zooms :
              LET after == handle_marker_placement(St, click, zoom)
              IN  /\ after.undo_stack # <<>>
                  /\ Last(after.undo_stack) = PlanState
                  /\ PlanOfState(KeyUndo(after)) = PlanState
        /\ \A click \in Points, zoom \in Zooms :
              LET after == oncontextmenu(St, click, zoom)
              IN  RemovalVictim(St, click, zoom) # None =>
                      /\ after.undo_stack # <<>>
                      /\ Last(after.undo_stack) = PlanState
                      /\ PlanOfState(after) # PlanState
                      /\ PlanOfState(KeyUndo(after)) = PlanState
        /\ selected_marker # None =>
              LET after == KeyDelete(St)
              IN  /\ after.undo_stack # <<>>
                  /\ Last(after.undo_stack) = PlanState
                  /\ PlanOfState(after) # PlanState
                  /\ PlanOfState(KeyUndo(after)) = PlanState

\* A mutation has acted and can be undone to a different planning state,
\* from a plan with guns, targets, pairings and wind.
C2_Witness ==
    /\ undo_stack # <<>>
    /\ Last(undo_stack) # PlanState
    /\ Last(undo_stack).gun_target_indices # <<>>
    /\ wind_direction # None
    /\ PlanOfState(KeyUndo(St)) = Last(undo_stack)

\* A step that is Ctrl+Z or Ctrl+Shift+Z taking effect.
IsUndoStep ==
    /\ undo_stack # <<>>
    /\ undo_stack' = Front(undo_stack)
    /\ redo_stack' = Append(redo_stack, PlanState)

IsRedoStep ==
    /\ redo_stack # <<>>
    /\ redo_stack' = Front(redo_stack)
    /\ undo_stack' = Append(undo_stack, PlanState)

\* C3: once an undo has left snapshots on the redo stack, every step that
\* changes the planning state (other than undo and redo themselves) leaves
\* the redo stack empty.
C3_EditClearsRedo ==
    [][(redo_stack # <<>> /\ PlanState' # PlanState
            /\ ~IsUndoStep /\ ~IsRedoStep)
        => redo_stack' = <<>>]_vars

\* C4: push_undo on a full stack drops the oldest snapshot and keeps the
\* other 49 in order under the new one; so after 51 placements from the
\* empty plan and 50 undos the undo stack is empty, a further undo changes
\* nothing, and the live plan is the one right after the first placement.
C4_OldestEvicted ==
    /\ Len(undo_stack) = UNDO_LIMIT =>
          push_snapshot(St).undo_stack = Append(Tail(undo_stack), PlanState)
    /\ (/\ Len(redo_stack) = UNDO_LIMIT
        /\ Len(redo_stack[1].spotter_positions) = UNDO_LIMIT + 1) =>
          /\ undo_stack = <<>>
          /\ KeyUndo(St) = St
          /\ spotter_positions = <<redo_stack[1].spotter_positions[1]>>
          /\ gun_positions = <<>>
          /\ target_positions = <<>>
          /\ gun_target_indices = <<>>

\* 51 placements were made and 50 undos have taken effect.
C4_Witness ==
    /\ Len(redo_stack) = UNDO_LIMIT
    /\ Len(redo_stack[1].spotter_positions) = UNDO_LIMIT + 1
    /\ undo_stack = <<>>

\* C5: undo pops the top undo snapshot, pushes the live planning state on
\* the redo stack and restores the popped snapshot; redo mirrors it.  Undo
\* then redo, and redo then undo, give back the planning state and both
\* stacks.
C5_UndoRedoRoundTrip ==
    /\ undo_stack # <<>> =>
          LET u == KeyUndo(St)
              r == KeyRedo(u)
          IN  /\ u.undo_stack = Front(undo_stack)
              /\ u.redo_stack = Append(redo_stack, PlanState)
              /\ PlanOfState(u) = Last(undo_stack)
              /\ PlanOfState(r) = PlanState
              /\ r.undo_stack = undo_stack
              /\ r.redo_stack = redo_stack
    /\ redo_stack # <<>> =>
          LET r == KeyRedo(St)
              u == KeyUndo(r)
          IN  /\ r.redo_stack = Front(redo_stack)
              /\ r.undo_stack = Append(undo_stack, PlanState)
              /\ PlanOfState(r) = Last(redo_stack)
              /\ PlanOfState(u) = PlanState
              /\ u.undo_stack = undo_stack
              /\ u.redo_stack = redo_stack

\* An undo has acted, with snapshots left on both stacks that differ from
\* the live plan.
C5_Witness ==
    /\ undo_stack # <<>>
    /\ redo_stack # <<>>
    /\ Last(undo_stack) # PlanState
    /\ Last(redo_stack) # PlanState

\* C6: removing target k turns every pairing equal to k into None, lowers
\* every pairing above k by one, leaves pairings below k and None entries
\* alone and keeps the number of entries.
C6_TargetRemovalFixup ==
    \A k \in 0..(Len(target_positions) - 1) :
        LET after == remove_marker(St, "Target", k).gun_target_indices
        IN  /\ Len(after) = Len(gun_target_indices)
            /\ \A j \in 1..Len(gun_target_indices) :
                  LET old == gun_target_indices[j]
                  IN  /\ old = None => after[j] = None
                      /\ (old # None /\ old[1] = k) => after[j] = None
                      /\ (old # None /\ old[1] > k) => after[j] = Some(old[1] - 1)
                      /\ (old # None /\ old[1] < k) => after[j] = old

\* Target 0 was removed from pairings [0, 0, 1].
C6_Witness ==
    /\ undo_stack # <<>>
    /\ Last(undo_stack).gun_target_indices = <<Some(0), Some(0), Some(1)>>
    /\ Len(Last(undo_stack).target_positions) = 2
    /\ Len(target_positions) = 1
    /\ gun_target_indices = <<None, None, Some(0)>>

\* Target indices no pairing of s references.
FreeTargets(s) ==
    {ti \in 0..(Len(s.target_positions) - 1) :
        \A j \in 1..Len(s.gun_target_indices) : s.gun_target_indices[j] # Some(ti)}

\* C7: a gun placement appends one gun, one weapon id and one pairing; the
\* new pairing is the smallest target index no pairing references, None if
\* there is none; the other pairings stay.
C7_GunPlacementAutoPairs ==
    (selected_marker = None /\ placement_mode = "Gun") =>
        \A click \in Points, zoom \in Zooms :
            LET after == handle_marker_placement(St, click, zoom)
                free == FreeTargets(St)
                new == after.gun_target_indices[Len(after.gun_target_indices)]
            IN  /\ after.gun_positions = Append(gun_positions, click)
                /\ after.gun_weapon_ids = Append(gun_weapon_ids, selected_weapon)
                /\ Len(after.gun_target_indices) = Len(gun_target_indices) + 1
                /\ Front(after.gun_target_indices) = gun_target_indices
                /\ free = {} => new = None
                /\ free # {} => /\ new # None
                                /\ new[1] \in free
                                /\ \A ti \in free : new[1] <= ti
                /\ after.target_positions = target_positions
                /\ after.spotter_positions = spotter_positions

\* A gun was placed while target 0 was paired and target 1 free, and got
\* target 1.
C7_Witness ==
    /\ undo_stack # <<>>
    /\ Len(gun_positions) = 2
    /\ Last(undo_stack).gun_positions = Front(gun_positions)
    /\ Last(undo_stack).gun_target_indices = <<Some(0)>>
    /\ Len(target_positions) = 2
    /\ gun_target_indices = <<Some(0), Some(1)>>

\* The pairings of s with the lowest-index None entry set to Some(ti).
PairLowestUnpaired(pairings, ti) ==
    [j \in 1..Len(pairings) |->
        IF pairings[j] = None /\ (\A i \in 1..(j - 1) : pairings[i] # None)
        THEN Some(ti) ELSE pairings[j]]

\* Some target lies strictly within the snap radius of click at zoom.
NearSomeTarget(s, click, zoom) ==
    \E j \in 1..Len(s.target_positions) :
        Within(Dist2(s.target_positions[j], click), Threshold(zoom))

\* C8 as stated: every resolved click in Target mode with nothing selected
\* appends a target at the click and pairs the lowest-index unpaired gun
\* with it.
C8_TargetClickAlwaysAppends ==
    (selected_marker = None /\ placement_mode = "Target") =>
        \A click \in Points, zoom \in Zooms :
            LET after == handle_marker_placement(St, click, zoom)
            IN  /\ after.target_positions = Append(target_positions, click)
                /\ after.gun_target_indices =
                       PairLowestUnpaired(gun_target_indices, Len(target_positions))

\* C8 amended: a resolved click in Target mode with nothing selected and no
\* existing target within the snap radius appends a target at the click and
\* pairs the lowest-index unpaired gun, if any, with the new index; nothing
\* else of the plan changes.
C8_TargetPlacementAutoPairs ==
    (selected_marker = None /\ placement_mode = "Target") =>
        \A click \in Points, zoom \in Zooms :
            ~NearSomeTarget(St, click, zoom) =>
                LET after == handle_marker_placement(St, click, zoom)
                IN  /\ after.target_positions = Append(target_positions, click)
                    /\ after.gun_target_indices =
                           PairLowestUnpaired(gun_target_indices,
                                              Len(target_positions))
                    /\ after.gun_positions = gun_positions
                    /\ after.gun_weapon_ids = gun_weapon_ids
                    /\ after.spotter_positions = spotter_positions

\* A target was appended and the second gun, the lowest unpaired one, was
\* paired with it.
C8_Witness ==
    /\ undo_stack # <<>>
    /\ Len(target_positions) = Len(Last(undo_stack).target_positions) + 1
    /\ Front(target_positions) = Last(undo_stack).target_positions
    /\ Len(gun_target_indices) = 2
    /\ Last(undo_stack).gun_target_indices[1] # None
    /\ Last(undo_stack).gun_target_indices[2] = None
    /\ gun_target_indices[2] = Some(Len(target_positions) - 1)

\* C9: with a marker selected a resolved click creates no marker.  A
\* selected gun clicked within the snap radius of a target is paired with
\* the nearest such target and nothing else changes; otherwise only the
\* position of the selected marker changes.  The selection is then empty.
C9_SelectedClickMovesOrPairs ==
    selected_marker # None =>
        \A click \in Points, zoom \in Zooms :
            LET after == handle_marker_placement(St, click, zoom)
                sm == selected_marker[1]
                MovedOnly(old, new, moved) ==
                    /\ Len(new) = Len(old)
                    /\ \A j \in 1..Len(old) :
                          new[j] = IF moved /\ j = sm.index + 1
                                   THEN click ELSE old[j]
            IN  /\ after.selected_marker = None
                /\ after.gun_weapon_ids = gun_weapon_ids
                /\ IF sm.kind = "Gun" /\ NearSomeTarget(St, click, zoom)
                   THEN /\ after.gun_positions = gun_positions
                        /\ after.target_positions = target_positions
                        /\ after.spotter_positions = spotter_positions
                        /\ Len(after.gun_target_indices) = Len(gun_target_indices)
                        /\ \A j \in 1..Len(gun_target_indices) :
                              j # sm.index + 1 =>
                                  after.gun_target_indices[j] = gun_target_indices[j]
                        /\ LET new == after.gun_target_indices[sm.index + 1]
                           IN  /\ new # None
                               /\ new[1] < Len(target_positions)
                               /\ \A j \in 1..Len(target_positions) :
                                     Dist2(target_positions[new[1] + 1], click)
                                         <= Dist2(target_positions[j], click)
                   ELSE /\ after.gun_target_indices = gun_target_indices
                        /\ MovedOnly(gun_positions, after.gun_positions,
                                     sm.kind = "Gun")
                        /\ MovedOnly(target_positions, after.target_positions,
                                     sm.kind = "Target")
                        /\ MovedOnly(spotter_positions, after.spotter_positions,
                                     sm.kind = "Spotter")

\* A gun was re-paired from one target to another that a second gun
\* already uses, and the selection is empty.
C9_Witness ==
    /\ undo_stack # <<>>
    /\ selected_marker = None
    /\ Last(undo_stack).gun_positions = gun_positions
    /\ Last(undo_stack).target_positions = target_positions
    /\ Len(gun_target_indices) = 3
    /\ Last(undo_stack).gun_target_indices = <<Some(0), Some(0), Some(1)>>
    /\ gun_target_indices = <<Some(1), Some(0), Some(1)>>

\* C10: a resolved click with nothing selected turns placement mode Gun
\* into Target, Target into Gun and leaves Spotter; a click that moves or
\* re-pairs the selected marker leaves the placement mode alone.
C10_PlacementModeCycle ==
    \A click \in Points, zoom \in Zooms :
        LET after == handle_marker_placement(St, click, zoom)
        IN  /\ (selected_marker = None /\ placement_mode = "Gun")
                   => after.placement_mode = "Target"
            /\ (selected_marker = None /\ placement_mode = "Target")
                   => after.placement_mode = "Gun"
            /\ (selected_marker = None /\ placement_mode = "Spotter")
                   => after.placement_mode = "Spotter"
            /\ selected_marker # None
                   => after.placement_mode = placement_mode

\* A target was placed from the empty plan after a gun: the mode is back at
\* Gun.
C10_Witness ==
    /\ plan_id = None
    /\ Len(undo_stack) = 2
    /\ Len(gun_positions) = 1
    /\ Len(target_positions) = 1
    /\ undo_stack[2].target_positions = <<>>
    /\ placement_mode = "Gun"
    /\ selected_marker = None

\* The markers of kind strictly within the removal radius of click: the set
\* of their (0-based) indices.
HitsOf(s, kind, click, zoom) ==
    {j \in 0..(Len(MarkerList(s, kind)) - 1) :
        Within(Dist2(MarkerList(s, kind)[j + 1], click), Threshold(zoom))}

\* Marker (kind, j) is at least as near to click as every marker of hits,
\* a set of <<kind, index>> pairs.
NearestAmong(s, kind, j, click, hits) ==
    \A h \in hits :
        Dist2(MarkerList(s, kind)[j + 1], click)
            <= Dist2(MarkerList(s, h[1])[h[2] + 1], click)

AllHits(s, click, zoom) ==
    UNION {{<<k, j>> : j \in HitsOf(s, k, click, zoom)} : k \in Kinds}

\* C12: a right-click removes the nearest marker of the active mode's list
\* when that list has one strictly within the removal radius, whatever the
\* other lists hold; otherwise the nearest marker within the radius over the
\* three lists; with no marker within the radius it removes nothing.
C12_RemovalVictimChoice ==
    \A click \in Points, zoom \in Zooms :
        LET after == oncontextmenu(St, click, zoom)
            victim == RemovalVictim(St, click, zoom)
            mode_hits == HitsOf(St, placement_mode, click, zoom)
            all_hits == AllHits(St, click, zoom)
        IN  /\ all_hits = {} => (victim = None /\ after = St)
            /\ mode_hits # {} =>
                  /\ victim # None
                  /\ victim[1][1] = placement_mode
                  /\ victim[1][2] \in mode_hits
                  /\ NearestAmong(St, placement_mode, victim[1][2], click,
                                  {<<placement_mode, j>> : j \in mode_hits})
            /\ (mode_hits = {} /\ all_hits # {}) =>
                  /\ victim # None
                  /\ <<victim[1][1], victim[1][2]>> \in all_hits
                  /\ NearestAmong(St, victim[1][1], victim[1][2], click,
                                  all_hits)
            /\ victim # None =>
                  \A k \in Kinds :
                      MarkerList(after, k) =
                          IF k = victim[1][1]
                          THEN VecRemove(MarkerList(St, k), victim[1][2])
                          ELSE MarkerList(St, k)

\* In Gun mode a gun 30 px from the click was removed although a target
\* lay right at the click.
C12_Witness ==
    /\ undo_stack # <<>>
    /\ placement_mode = "Gun"
    /\ Last(undo_stack).target_positions = target_positions
    /\ \E j \in 1..Len(target_positions) : target_positions[j] = PA
    /\ \E i \in 1..Len(Last(undo_stack).gun_positions) :
          /\ Last(undo_stack).gun_positions[i] = PB
          /\ gun_positions = VecRemove(Last(undo_stack).gun_positions, i - 1)
          /\ \A j \in 1..Len(Last(undo_stack).gun_positions) :
                Last(undo_stack).gun_positions[j] # PA

\* C13: removing marker (K, i) clears a selection of (K, i), turns a
\* selection (K, j) with j > i into (K, j - 1), which is the same marker as
\* before, and leaves any other selection as it was.  Delete removes the
\* selected marker itself, so it clears the selection.
C13_SelectionFollowsRemoval ==
    /\ \A click \in Points, zoom \in Zooms :
          LET after == oncontextmenu(St, click, zoom)
              victim == RemovalVictim(St, click, zoom)
          IN  (victim # None /\ selected_marker # None) =>
                  LET kind == victim[1][1]
                      i == victim[1][2]
                      sm == selected_marker[1]
                  IN  /\ (sm.kind = kind /\ sm.index = i) =>
                              after.selected_marker = None
                      /\ (sm.kind = kind /\ sm.index > i) =>
                              /\ after.selected_marker =
                                     Some([kind |-> kind, index |-> sm.index - 1])
                              /\ MarkerList(after, kind)[sm.index]
                                     = MarkerList(St, kind)[sm.index + 1]
                      /\ (sm.kind # kind \/ sm.index < i) =>
                              /\ after.selected_marker = selected_marker
                              /\ MarkerList(after, sm.kind)[sm.index + 1]
                                     = MarkerList(St, sm.kind)[sm.index + 1]
    /\ selected_marker # None =>
          /\ KeyDelete(St).selected_marker = None
          /\ MarkerList(KeyDelete(St), selected_marker[1].kind) =
                 VecRemove(MarkerList(St, selected_marker[1].kind),
                           selected_marker[1].index)

\* The second gun was selected when a right-click removed the first: the
\* selection now names index 0.
C13_Witness ==
    /\ undo_stack # <<>>
    /\ Len(Last(undo_stack).gun_positions) = 2
    /\ gun_positions = <<Last(undo_stack).gun_positions[2]>>
    /\ Last(undo_stack).gun_positions[1] # Last(undo_stack).gun_positions[2]
    /\ selected_marker = Some([kind |-> "Gun", index |-> 0])
    /\ Last(undo_stack).target_positions = target_positions
    /\ Last(undo_stack).spotter_positions = spotter_positions

\* C11: a press-then-release sequence acts on the plan only if the pointer
\* stayed under the device threshold (3 px for the mouse, 8 px for a finger)
\* from the press point: once a move has taken it 3 px (8 px) or more away,
\* the release leaves markers, pairings, selection, placement mode and undo
\* stack as they were, wherever the pointer is released.
C11_ClickOnlyUnderThreshold ==
    /\ \A press \in MousePresses, move \in MouseMoves,
          release \in MousePresses \cup MouseMoves :
          LET v == onmousemove(onmousedown(view, press, "Primary"), move)
          IN  Dist2(press, move) >= DRAG_THRESHOLD * DRAG_THRESHOLD =>
                  onmouseup(St, v, release) = St
    /\ view.touches = <<>> =>
          \A press \in FirstTouches, move \in FirstTouchMoves :
              LET v == ontouchmove(ontouchstart(view, <<press>>), <<move>>)
              IN  Dist2(press, move)
                      >= TOUCH_DRAG_THRESHOLD * TOUCH_DRAG_THRESHOLD =>
                      ontouchend(St, v, 0) = St

\* C14: no mutating operation raises, in any state the planner reaches
\* from a plan the server holds, including a plan whose weapon_ids or
\* gun_target_indices list is shorter than its gun list: a removal, a move
\* or a pairing performs its change or does nothing.
C14_MutationsAreTotal == ~panicked

\* C15: in every reachable state the zoom factor lies in [1, 10], whatever
\* wheel steps, pinch gestures, pans and view resets came before.
C15_ZoomWithinLimits ==
    /\ ZOOM_MIN <= view.zoom
    /\ view.zoom <= ZOOM_MAX

\* Two fingers were spread to twenty times their first distance, from zoom
\* 1: the factor asked for is 20, the zoom is 10.
C15_Witness ==
    /\ view.is_pinching
    /\ Len(view.touches) = 2
    /\ view.pinch_start_distance >= 1
    /\ (view.pinch_start_zoom
            * point_distance(view.touches[1], view.touches[2]))
           \div view.pinch_start_distance > ZOOM_MAX
    /\ view.zoom = ZOOM_MAX

\* C16: after every wheel zoom, pinch zoom, mouse pan, touch pan and view
\* reset the pan satisfies -(max(0, contentWidth - viewWidth)) <= panX <= 0
\* and -(max(0, contentHeight - viewHeight)) <= panY <= 0, with
\* contentWidth = viewWidth * zoom and
\* contentHeight = viewWidth * (mapHeight / mapWidth) * zoom.  Both sides
\* are multiplied out, so that nothing is rounded.
C16_PanWithinBounds ==
    LET w == view.rect[1]
        h == view.rect[2]
    IN  /\ view.pan_x <= 0
        /\ view.pan_y <= 0
        /\ -view.pan_x * ZOOM_MIN
               <= Max(0, w * view.zoom - w * ZOOM_MIN)
        /\ -view.pan_y * MAP_WIDTH_PX * ZOOM_MIN
               <= Max(0, w * MAP_HEIGHT_PX * view.zoom
                             - h * MAP_WIDTH_PX * ZOOM_MIN)

\* A pinch to twice the size in the portrait container, around a midpoint
\* 300 px down: the content is still shorter than the container, so the pan
\* went left and stayed 0 downwards.
C16_Witness ==
    /\ view.is_pinching
    /\ view.rect[2] * MAP_WIDTH_PX * ZOOM_MIN
           > view.rect[1] * MAP_HEIGHT_PX * view.zoom
    /\ view.zoom > view.pinch_start_zoom
    /\ view.pinch_midpoint[2] > 0
    /\ view.pan_x < 0
    /\ view.pan_y = 0

\* Cursor positions for the anchor property: the container's corner, its
\* middle and points in between.
AnchorCursors == {<<0, 0>>, <<200, 300>>, <<400, 300>>, <<400, 600>>}

\* The content point under the cursor at (old_zoom, old_pan) is under it at
\* (new_zoom, new_pan), on one axis: cursor = new_pan + c * new_zoom with
\* c = (cursor - old_pan) / old_zoom, to within the pixel the pan is rounded
\* to.
AnchoredAxis(cursor, old_zoom, old_pan, new_zoom, new_pan) ==
    LET slack == (cursor - old_pan) * new_zoom - (cursor - new_pan) * old_zoom
    IN  0 <= slack /\ slack < old_zoom

Anchored(cursor, old_zoom, old_pan_x, old_pan_y, v) ==
    /\ AnchoredAxis(cursor[1], old_zoom, old_pan_x, v.zoom, v.pan_x)
    /\ AnchoredAxis(cursor[2], old_zoom, old_pan_y, v.zoom, v.pan_y)

\* The cursor is over the container and over the rendered content.
OverContent(cursor, zoom, pan_y) ==
    /\ InRect(cursor)
    /\ (cursor[2] - pan_y) * MAP_WIDTH_PX * ZOOM_MIN
           <= view.rect[1] * MAP_HEIGHT_PX * zoom

\* The rendered content is at least as tall as the container.
ContentFills(zoom) ==
    view.rect[1] * MAP_HEIGHT_PX * zoom
        >= view.rect[2] * MAP_WIDTH_PX * ZOOM_MIN

\* The wheel zoom-ins and pinch zoom-ins possible in the current state that
\* satisfy the precondition, each as <<cursor, old zoom, old pan x, old pan
\* y, view afterwards>>.
WheelZoomIns ==
    {<<cursor, view.zoom, view.pan_x, view.pan_y, onwheel(view, cursor, -1)>> :
        cursor \in {c \in AnchorCursors :
                       /\ OverContent(c, view.zoom, view.pan_y)
                       /\ onwheel(view, c, -1).zoom > view.zoom}}

PinchZoomIns ==
    IF view.is_pinching /\ Len(view.touches) = 2 /\ view.pinch_start_distance >= 1
    THEN {<<view.pinch_midpoint, view.pinch_start_zoom, view.pinch_start_pan_x,
            view.pinch_start_pan_y,
            ontouchmove(view, <<view.touches[1], to>>)>> :
             to \in {t \in SecondTouchMoves :
                        /\ OverContent(view.pinch_midpoint,
                                       view.pinch_start_zoom,
                                       view.pinch_start_pan_y)
                        /\ ontouchmove(view, <<view.touches[1], t>>).zoom
                               > view.pinch_start_zoom}}
    ELSE {}

\* C17 as amended: a zoom-in at a cursor over the content, from an in-bounds
\* pan, with the content at least as tall as the container before the zoom,
\* keeps the content point under the cursor fixed on both axes; zooming from
\* 1 to 2 at (400,300) in an 800x600 view from pan (0,0) gives pan
\* (-400,-300).  Whatever the height of the content, the horizontal axis is
\* anchored, and the vertical pan is 0 as long as the content is shorter
\* than the container after the zoom.
C17_AnchorWhenContentFills ==
    /\ \A z \in WheelZoomIns \cup PinchZoomIns :
          /\ ContentFills(z[2]) => Anchored(z[1], z[2], z[3], z[4], z[5])
          /\ AnchoredAxis(z[1][1], z[2], z[3], z[5].zoom, z[5].pan_x)
          /\ ~ContentFills(z[5].zoom) => z[5].pan_y = 0
    /\ LET anchored == zoom_pan_at_cursor(400, 300, ZOOM_MIN, 2 * ZOOM_MIN, 0, 0)
       IN  clamp_pan(anchored[1], anchored[2], 2 * ZOOM_MIN, 800, 600)
               = <<-400, -300>>

\* C17: every zoom-in at a cursor over the content, from an in-bounds pan,
\* keeps the content point under the cursor fixed on both axes.
C17_ZoomKeepsCursorPoint ==
    \A z \in WheelZoomIns \cup PinchZoomIns :
        Anchored(z[1], z[2], z[3], z[4], z[5])

\* One wheel notch at (200,300) in the landscape container, from zoom 1 and
\* pan (0,0): zoom 1.1 and pan (-20,-30).
C17_Witness ==
    /\ ContentFills(ZOOM_MIN)
    /\ view.zoom = (ZOOM_MIN * ZOOM_STEP_NUM) \div ZOOM_STEP_DEN
    /\ view.pan_x = -20
    /\ view.pan_y = -30

\* The view after a tap at a point: one finger down and up again without
\* moving.
ViewAfterTap(v, point) == ontouchend_view(ontouchstart(v, <<point>>), 0)

\* C18: a double-click with the mouse and a double-tap (two taps at one
\* point) on a touch device each leave zoom = 1 and pan = (0, 0), whatever
\* the view transform was before.
C18_DoubleClickAndDoubleTapReset ==
    /\ ondoubleclick(view).zoom = ZOOM_MIN
    /\ ondoubleclick(view).pan_x = 0
    /\ ondoubleclick(view).pan_y = 0
    /\ view.touches = <<>> =>
          \A point \in {p \in FirstTouches : InRect(p)} :
              LET v == ViewAfterTap(ViewAfterTap(view, point), point)
              IN  v.zoom = ZOOM_MIN /\ v.pan_x = 0 /\ v.pan_y = 0

\* C19: every gun, target and spotter position held in the planning state
\* satisfies 0 <= x < mapWidth and 0 <= y < mapHeight: a pointer position
\* that resolves outside the map is rejected, not clamped into the state.
C19_PositionsWithinMap ==
    \A kind \in Kinds :
        \A j \in 1..Len(MarkerList(St, kind)) :
            LET pos == MarkerList(St, kind)[j]
            IN  /\ 0 <= pos[1] /\ pos[1] < MAP_WIDTH_PX
                /\ 0 <= pos[2] /\ pos[2] < MAP_HEIGHT_PX

\* A coordinate or angle that is not a finite number.
NotFinite(x) == x = NaN

\* A position that is not finite or lies outside the map.
BadPosition(pos) ==
    \/ NotFinite(pos[1])
    \/ NotFinite(pos[2])
    \/ /\ ~NotFinite(pos[1])
       /\ ~NotFinite(pos[2])
       /\ \/ pos[1] < 0 \/ pos[1] > MAP_WIDTH_M * MPP_X_DEN
          \/ pos[2] < 0 \/ pos[2] > MAP_HEIGHT_M * MPP_Y_DEN

BadPositions(opt) ==
    opt # None /\ \E j \in 1..Len(opt[1]) : BadPosition(opt[1][j])

\* A pairing index that names no target of the request.
BadPairing(input) ==
    /\ input.gun_target_indices # None
    /\ \E j \in 1..Len(input.gun_target_indices[1]) :
          LET idx == input.gun_target_indices[1][j]
              targets == IF input.target_positions = None THEN 0
                         ELSE Len(input.target_positions[1])
          IN  idx # None /\ (idx[1] < 0 \/ idx[1] >= targets)

\* A request that one of the validations of createPlan is to refuse.
MustBeRefused(input) ==
    \/ input.name.chars > NAME_LIMIT
    \/ input.map_id \notin Maps
    \/ \E j \in 1..Len(input.weapon_ids) :
          input.weapon_ids[j] \notin {"", UNASSIGNED_WEAPON} \cup KnownWeapons
    \/ BadPositions(input.gun_positions)
    \/ BadPositions(input.target_positions)
    \/ BadPositions(input.spotter_positions)
    \/ BadPairing(input)
    \/ /\ input.wind_direction # None
       /\ \/ NotFinite(input.wind_direction[1])
          \/ /\ ~NotFinite(input.wind_direction[1])
             /\ \/ input.wind_direction[1] < 0
                \/ input.wind_direction[1] >= 360
    \/ /\ input.wind_strength # None
       /\ input.wind_strength[1] > WIND_STRENGTH_LIMIT

\* C20: createPlan stores a plan only when every validation passes: a
\* request with a name over 200 characters, an unknown map id or weapon id,
\* a position that is not finite or outside the map, an invalid pairing
\* index, a wind direction outside [0, 360) or a wind strength over 5
\* leaves the stored plans and their count as they were.
C20_InvalidRequestStoresNothing ==
    \A input \in ServerInputs :
        MustBeRefused(input) =>
            /\ create_plan(plans, input) = plans
            /\ count_plans(create_plan(plans, input)) = count_plans(plans)

\* C21: createPlan refuses, with an "out of bounds" or a "non-negative"
\* error, every request with a pairing index that is negative or not below
\* the number of targets of the same request, whatever that number is: one,
\* zero, or the target list left out; nothing is stored.
C21_BadPairingIndexRefused ==
    \A input \in ServerInputs :
        BadPairing(input) =>
            /\ ~validate_create_plan(input)
            /\ create_plan(plans, input) = plans
            /\ gun_target_indices_error(
                   input.gun_target_indices[1],
                   Len(unwrap_or_default(input.target_positions)))
                   \in {Some("out of bounds"), Some("non-negative")}

\* Gun i (0-based) has no pairing entry, an entry of None, or an entry whose
\* index is not the index of a target.
InvalidPairing(s, i) ==
    \/ i >= Len(s.gun_target_indices)
    \/ s.gun_target_indices[i + 1] = None
    \/ s.gun_target_indices[i + 1][1] >= Len(s.target_positions)

\* The entry of gun i is an index, and not the index of a target.
DanglingPairing(s, i) ==
    /\ i < Len(s.gun_target_indices)
    /\ s.gun_target_indices[i + 1] # None
    /\ s.gun_target_indices[i + 1][1] >= Len(s.target_positions)

\* No run of _calc_effect is outstanding or due.
CalcQuiet == calc.task = None /\ ~calc.stale

\* The overlays of the map for the current signals.
FiringLines ==
    build_firing_lines(gun_positions, target_positions, gun_target_indices)

AccuracyCircles ==
    build_accuracy_circles(gun_positions, target_positions,
                           gun_target_indices,
                           accuracy_radii_px(calc.firing_solutions))

\* C22: for a gun whose pairing entry is missing, None or not the index of
\* a target, no firing line and no accuracy circle is drawn, the running
\* computation calls the server for no such gun and holds None for it, and
\* once no computation is outstanding its solution is None.
C22_InvalidPairingIsUnpaired ==
    /\ \A j \in 1..Len(gun_positions) :
           InvalidPairing(St, j - 1) =>
               /\ FiringLines[j] = None
               /\ AccuracyCircles[j] = None
               /\ ~calls_calculate(calc_inputs(St), j - 1)
               /\ CalcQuiet =>
                      /\ Len(calc.firing_solutions) = Len(gun_positions)
                      /\ calc.firing_solutions[j] = None
    /\ calc.task # None =>
           LET t == calc.task[1]
           IN  /\ ~InvalidPairing([gun_target_indices |-> t.in.pairings,
                                   target_positions |-> t.in.targets],
                                  Len(t.results))
               /\ \A j \in 1..Len(t.results) :
                      InvalidPairing([gun_target_indices |-> t.in.pairings,
                                      target_positions |-> t.in.targets],
                                     j - 1)
                          => t.results[j] = None

\* A gun whose entry points past the targets, next to a target and to a
\* gun with a computed solution, with no computation outstanding.
C22_Witness ==
    /\ CalcQuiet
    /\ target_positions # <<>>
    /\ \E j \in 1..Len(gun_positions) : DanglingPairing(St, j - 1)
    /\ \E j \in 1..Len(calc.firing_solutions) : calc.firing_solutions[j] # None

\* C23: a stored plan without pairing indices is loaded with one entry per
\* gun, gun i paired with target i for i below the smaller of the two
\* counts and unpaired otherwise; a stored plan with pairing indices is
\* loaded with exactly those.
C23_LegacyPairingByIndex ==
    \A i \in 1..Len(plans) :
        LET plan == plans[i]
            loaded == plan_loader(Fresh(Some(i)), plan).gun_target_indices
            num_pairs == Min(Len(plan.gun_positions),
                             Len(plan.target_positions))
        IN  IF plan.gun_target_indices = <<>>
            THEN /\ Len(loaded) = Len(plan.gun_positions)
                 /\ \A j \in 1..Len(loaded) :
                        loaded[j] = IF j - 1 < num_pairs THEN Some(j - 1)
                                    ELSE None
            ELSE loaded = plan.gun_target_indices

\* The page shows a stored plan without pairing indices, two guns and one
\* target, as the loader left it: the second gun is unpaired.
C23_Witness ==
    /\ plan_id # None
    /\ plans[plan_id[1]].gun_target_indices = <<>>
    /\ Len(plans[plan_id[1]].gun_positions) = 2
    /\ Len(plans[plan_id[1]].target_positions) = 1
    /\ St = plan_loader(Fresh(plan_id), plans[plan_id[1]])
    /\ gun_target_indices = <<Some(0), None>>

\* The resource once every call still to come has been answered.
RECURSIVE AllAnswered(_)
AllAnswered(c) ==
    IF c.task = None THEN c ELSE AllAnswered(calc_resume(c, TRUE))

\* The outstanding call is for a gun whose weapon the server does not know.
UnknownWeaponCall(c) ==
    /\ c.task # None
    /\ find_weapon_by_slug(Weapons, wid_of(c.task[1].in,
                                            Len(c.task[1].results))) = None

\* C24: when the outstanding call fails, by itself or because the server
\* does not know the weapon, the list the run ends with has one entry per
\* gun, None for the gun of the failed call and for every other gun the
\* entry it has when the call succeeds; the step that takes the failure
\* changes no signal of the planning state, the selection or the stacks.
C24_FailedCallLeavesRest ==
    [][calc.task # None =>
           LET t == calc.task[1]
               i == Len(t.results) + 1
               failed == AllAnswered(calc_resume(calc, FALSE)).firing_solutions
               answered == AllAnswered(calc_resume(calc, TRUE)).firing_solutions
           IN  /\ Len(failed) = Len(t.in.guns)
               /\ failed[i] = None
               /\ UnknownWeaponCall(calc) => answered[i] = None
               /\ \A j \in (1..Len(failed)) \ {i} : failed[j] = answered[j]
               /\ \A j \in 1..Len(t.results) : failed[j] = t.results[j]
               /\ calc' = calc_resume(calc, FALSE) => UNCHANGED signals]_vars

\* No computation is outstanding; the list has None for a gun whose call
\* was made and failed, after the computed solution of another gun.
C24_Witness ==
    /\ CalcQuiet
    /\ Len(calc.firing_solutions) = Len(gun_positions)
    /\ \E j, k \in 1..Len(calc.firing_solutions) :
           /\ k < j
           /\ calls_calculate(calc_inputs(St), j - 1)
           /\ calc.firing_solutions[j] = None
           /\ calc.firing_solutions[k] # None

\* C25: once no run of the computation is outstanding or due, the list on
\* display has one entry per current gun, and each entry is None or the
\* server's answer for the current position of that gun, its current
\* paired target, its current weapon and the current wind, whatever was
\* written to those signals while earlier runs were outstanding.
C25_NoStaleSolutionDisplayed ==
    CalcQuiet =>
        /\ Len(calc.firing_solutions) = Len(gun_positions)
        /\ \A j \in 1..Len(calc.firing_solutions) :
               \/ calc.firing_solutions[j] = None
               \/ /\ calls_calculate(calc_inputs(St), j - 1)
                  /\ calc.firing_solutions[j]
                         = calculate_for(calc_inputs(St), j - 1, TRUE)

\* A run that has an answer already is outstanding, and the signals it
\* cloned have been written since: a gun's call would get another answer.
C25_Witness ==
    /\ calc.task # None
    /\ calc.stale
    /\ \E j \in 1..Len(calc.task[1].results) :
           /\ calc.task[1].results[j] # None
           /\ j <= Len(gun_positions)
           /\ calls_calculate(calc_inputs(St), j - 1)
           /\ calc.task[1].results[j]
                  # calculate_for(calc_inputs(St), j - 1, TRUE)

\* The query has been answered with a firing solution.
Solved == query.input # None /\ query.answer # None /\ query.answer[1] # None

\* The solution of the answer, and the input it answers.
Solution == query.answer[1][1]

Input == query.input[1]

\* The Option<WindInput> that QueryRoot::calculate hands to firing_solution
\* for an input object.
WindInputOf(input) ==
    IF input.wind = None THEN None
    ELSE Some([direction |-> input.wind[1].direction,
               strength |-> input.wind[1].strength % U8])

\* C26: in a firing solution the wind-adjusted azimuth, the wind-adjusted
\* distance and the wind offset are all present or all absent, and present
\* exactly when firing_solution is given a wind whose strength is above 0;
\* the input object the client builds has a null wind whenever the strength
\* is 0 or missing or no direction is set.
C26_WindFieldsTogether ==
    /\ Solved =>
           /\ (Solution.wind_adjusted_azimuth = None)
                  <=> (Solution.wind_offset_meters = None)
           /\ (Solution.wind_adjusted_distance = None)
                  <=> (Solution.wind_offset_meters = None)
           /\ (Solution.wind_offset_meters # None)
                  <=> /\ WindInputOf(Input) # None
                      /\ WindInputOf(Input)[1].strength > 0
    /\ query.input # None =>
           \A w_dir \in {None} \cup {Some(d) : d \in QueryDirections},
              w_str \in {None} \cup {Some(v) : v \in QueryStrengths} :
               LET sent == build_calculate_variables(
                               Input.gun_position, Input.target_position,
                               Input.weapon_id, w_dir, w_str).wind
               IN  /\ (w_dir = None \/ w_str = None \/ w_str[1] = 0)
                          => sent = None
                   /\ (w_dir # None /\ w_str # None /\ w_str[1] > 0)
                          => sent = Some([direction |-> w_dir[1],
                                          strength |-> w_str[1]])

\* A solution for a wind of strength 0 from the east: no field is present.
C26_Witness ==
    /\ Solved
    /\ Input.wind = Some([direction |-> 90, strength |-> 0])
    /\ Solution.wind_adjusted_azimuth = None
    /\ Solution.wind_adjusted_distance = None
    /\ Solution.wind_offset_meters = None

\* C27: for every wind of a calculate query whose strength s (a u32) is
\* above 0, the wind offset of the solution is s * 8.
C27_WindOffsetIsStrengthTimesEight ==
    (Solved /\ Input.wind # None /\ Input.wind[1].strength > 0) =>
        Solution.wind_offset_meters
            = Some(Input.wind[1].strength * WIND_DRIFT_PER_LEVEL)

\* The displacement from the gun to the target of the query, in whole
\* meters, and the square of its length.
Displacement ==
    <<Input.target_position[1] \div MPP_X_DEN
          - Input.gun_position[1] \div MPP_X_DEN,
      Input.target_position[2] \div MPP_Y_DEN
          - Input.gun_position[2] \div MPP_Y_DEN>>

SquaredLength ==
    Displacement[1] * Displacement[1] + Displacement[2] * Displacement[2]

\* The weapon of the query in the server's table.
QueryWeapon == find_weapon_by_slug(query.assets, Input.weapon_id)[1]

\* C28: the distance of a solution is the Euclidean distance from gun to
\* target (to the whole meter), and in_range is true exactly when that
\* distance lies between the weapon's minimum and maximum range, both
\* included: 200 m due south with the range [100, 300] is in range, 500 m
\* is not.
C28_InRangeInclusive ==
    Solved =>
        /\ Solution.distance * Solution.distance <= SquaredLength
        /\ SquaredLength < (Solution.distance + 1) * (Solution.distance + 1)
        /\ Solution.in_range
               <=> /\ QueryWeapon.min_range * QueryWeapon.min_range
                          <= SquaredLength
                   /\ SquaredLength
                          <= QueryWeapon.max_range * QueryWeapon.max_range
        /\ (Displacement = <<0, 200>> /\ query.assets = Weapons)
               => Solution.distance = 200 /\ Solution.in_range
        /\ SquaredLength = 500 * 500 => ~Solution.in_range

\* Solutions at exactly the maximum range of 300 m, off the axes: in range.
C28_Witness ==
    /\ Solved
    /\ query.assets = Weapons
    /\ Displacement = <<180, -240>>
    /\ Solution.distance = QueryWeapon.max_range
    /\ Solution.in_range

\* C29: the accuracy radius of a solution at distance d is
\* atMin + t * (atMax - atMin) with t = clamp((d - min) / (max - min), 0, 1)
\* when max > min (to the thousandth of t): atMin at and below the minimum
\* range, atMax at and above the maximum range, their mean half way; it is
\* atMin at every distance when the two ranges are equal.
C29_AccuracyInterpolation ==
    Solved =>
        LET w == QueryWeapon
            d == Solution.distance
            acc == Solution.accuracy_radius
            span == w.max_range - w.min_range
            atMin == w.acc_radius[1]
            atMax == w.acc_radius[2]
            exact == MILLI * (atMin * span
                                  + Clamp(d - w.min_range, 0, span)
                                        * (atMax - atMin))
        IN  IF span = 0 THEN acc = atMin * MILLI
            ELSE /\ Abs(acc * span - exact) < span * Abs(atMax - atMin)
                 /\ d <= w.min_range => acc = atMin * MILLI
                 /\ d >= w.max_range => acc = atMax * MILLI
                 /\ 2 * d = w.min_range + w.max_range
                        => 2 * acc = (atMin + atMax) * MILLI

\* A solution of the server whose weapon has equal ranges, for a target
\* beyond them: the radius is the one at the minimum range.
C29_Witness ==
    /\ Solved
    /\ QueryWeapon.max_range = QueryWeapon.min_range
    /\ Solution.distance > QueryWeapon.max_range
    /\ Solution.accuracy_radius = QueryWeapon.acc_radius[1] * MILLI

\* C30: every azimuth that a solution reports, from the gun to the target
\* or to the wind-compensated target, is at least 0 and below 360 degrees;
\* from the gun to a target due north (smaller y) it is 0, due east 90, due
\* south 180 and due west 270.
C30_AzimuthIsCompassHeading ==
    Solved =>
        /\ 0 <= Solution.azimuth /\ Solution.azimuth < 360 * DEG
        /\ Solution.wind_adjusted_azimuth # None =>
               /\ 0 <= Solution.wind_adjusted_azimuth[1]
               /\ Solution.wind_adjusted_azimuth[1] < 360 * DEG
        /\ (Displacement[1] = 0 /\ Displacement[2] < 0)
               => Solution.azimuth = 0
        /\ (Displacement[1] > 0 /\ Displacement[2] = 0)
               => Solution.azimuth = 90 * DEG
        /\ (Displacement[1] = 0 /\ Displacement[2] > 0)
               => Solution.azimuth = 180 * DEG
        /\ (Displacement[1] < 0 /\ Displacement[2] = 0)
               => Solution.azimuth = 270 * DEG

\* ---------------------------------------------------------------------
\* Grid labels
\* ---------------------------------------------------------------------

\* Every label of the grid: a column letter A..Q, a row 1..15 and a keypad
\* digit 1..9.
GridLabels == {UpperCase[c] \o ToString(r) \o "k" \o ToString(k) : c \in 1..GRID_COLS, r \in 1..GRID_ROWS, k \in 1..9}

Labelled == grid.position # None

\* The position of the map nearest to the formatted one, in hundredths.
HeldPosition == <<Clamp(grid.position[1][1], 0, MAP_WIDTH_M * CENTI - 1), Clamp(grid.position[1][2], 0, MAP_HEIGHT_M * CENTI - 1)>>

\* The index (from 0) of the part that holds offset `at` when `length` is
\* cut into `parts` equal parts.
PartOf(at, length, parts) == CHOOSE i \in 0..(parts - 1) : i * length <= at * parts /\ at * parts < (i + 1) * length

KeypadLayout == <<<<7, 8, 9>>, <<4, 5, 6>>, <<1, 2, 3>>>>

\* C31: every formatted position, inside the map or not, has a label with
\* a column letter A..Q, a row 1..15 and a keypad digit 1..9; a position
\* outside the map has the label of the nearest position of the map; the
\* column is floor(x / cell width), the row floor(y / cell height) + 1 and
\* the keypad digit the entry of 7,8,9 / 4,5,6 / 1,2,3 for the third of the
\* cell; (0,0) is A1k7 and positions just inside the bottom-right corner
\* are Q15k3.
C31_GridLabelClamped ==
    Labelled =>
        LET x == HeldPosition[1]
            y == HeldPosition[2]
            w == MAP_WIDTH_M * CENTI
            h == MAP_HEIGHT_M * CENTI
            col == PartOf(x, w, GRID_COLS)
            row == PartOf(y, h, GRID_ROWS)
            \* offsets within the cell, in GRID_COLS-ths and GRID_ROWS-ths
            tx == PartOf(x * GRID_COLS - col * w, w, 3)
            ty == PartOf(y * GRID_ROWS - row * h, h, 3)
        IN  /\ grid.label \in GridLabels
            /\ grid.label = UpperCase[col + 1] \o ToString(row + 1) \o "k" \o ToString(KeypadLayout[ty + 1][tx + 1])
            /\ grid.position[1] = <<0, 0>> => grid.label = "A1k7"
            /\ grid.position[1] = <<100, 100>> => grid.label = "A1k7"
            /\ grid.position[1] = <<(MAP_WIDTH_M - 1) * CENTI, (MAP_HEIGHT_M - 1) * CENTI>> => grid.label = "Q15k3"
            /\ grid.position[1] = <<MAP_WIDTH_M * CENTI - 1, MAP_HEIGHT_M * CENTI - 1>> => grid.label = "Q15k3"

\* A position east and north of the map was formatted: it is in the last
\* column and the first row.
C31_Witness ==
    /\ Labelled
    /\ grid.position[1][1] > MAP_WIDTH_M * CENTI
    /\ grid.position[1][2] < 0
    /\ grid.label = "Q1k9"

\* ---------------------------------------------------------------------
\* Invariants of the planning state
\* ---------------------------------------------------------------------

\* C32: after any sequence of placements, moves, re-pairings, removals,
\* map changes, undos and redos, every pairing entry Some(t) names an
\* existing target: t < number of targets.
C32_PairingsNameTargets ==
    \A i \in 1..Len(gun_target_indices) :
        gun_target_indices[i] # None =>
            /\ 0 <= gun_target_indices[i][1]
            /\ gun_target_indices[i][1] < Len(target_positions)

\* A target was just removed (the newest snapshot holds one more) and a
\* gun is still paired with the last of the remaining targets.
C32_Witness ==
    /\ undo_stack # <<>>
    /\ Len(Last(undo_stack).target_positions) = Len(target_positions) + 1
    /\ \E i \in 1..Len(gun_target_indices) :
           /\ gun_target_indices[i] = Some(Len(target_positions) - 1)
           /\ Last(undo_stack).gun_target_indices[i] = Some(Len(target_positions))

\* C33: the gun position list, the per-gun weapon id list and the pairing
\* list have the same length after any sequence of placements, moves,
\* re-pairings, removals, map changes, undos and redos; and removing gun i
\* takes entry i out of each of the three and leaves the entries before it
\* and after it in their order.
C33_GunListsParallel ==
    /\ Len(gun_weapon_ids) = Len(gun_positions)
    /\ Len(gun_target_indices) = Len(gun_positions)
    /\ \A i \in 0..(Len(gun_positions) - 1) :
           LET after == remove_marker(St, "Gun", i)
               Without(old, new) ==
                   /\ Len(new) = Len(old) - 1
                   /\ \A j \in 1..Len(new) :
                          new[j] = IF j <= i THEN old[j] ELSE old[j + 1]
           IN  /\ Without(gun_positions, after.gun_positions)
               /\ Without(gun_weapon_ids, after.gun_weapon_ids)
               /\ Without(gun_target_indices, after.gun_target_indices)
               /\ after.target_positions = target_positions
               /\ after.spotter_positions = spotter_positions

\* The first of three guns was removed: the two guns left, their weapon
\* ids and their pairings are the second and third entries of before.
C33_Witness ==
    /\ undo_stack # <<>>
    /\ Len(Last(undo_stack).gun_positions) = 3
    /\ gun_positions = Tail(Last(undo_stack).gun_positions)
    /\ gun_weapon_ids = Tail(Last(undo_stack).gun_weapon_ids)
    /\ gun_target_indices = Tail(Last(undo_stack).gun_target_indices)
    /\ gun_weapon_ids = <<"mortar", "">>

\* C34: whenever a marker is selected, its index is a valid index into the
\* list of its kind, after any sequence of selections in the side panel,
\* placements, moves, removals, map changes, undos and redos; an undo or a
\* redo that restores a snapshot leaves nothing selected.
C34_SelectionIsValidIndex ==
    /\ selected_marker # None =>
           /\ selected_marker[1].kind \in Kinds
           /\ 0 <= selected_marker[1].index
           /\ selected_marker[1].index < Len(MarkerList(St, selected_marker[1].kind))
    /\ undo_stack # <<>> => KeyUndo(St).selected_marker = None
    /\ redo_stack # <<>> => KeyRedo(St).selected_marker = None

\* The last of the targets is selected and the newest snapshot holds one
\* target more: a target was removed and the selection names a target that
\* is still there.
C34_Witness ==
    /\ selected_marker # None
    /\ selected_marker[1].kind = "Target"
    /\ selected_marker[1].index = Len(target_positions) - 1
    /\ undo_stack # <<>>
    /\ Len(Last(undo_stack).target_positions) = Len(target_positions) + 1

\* Indices (from 0) of the targets of s strictly within the snap radius of
\* click at zoom.
NearTargets(s, click, zoom) ==
    {ti \in 0..(Len(s.target_positions) - 1) :
        Within(Dist2(s.target_positions[ti + 1], click), Threshold(zoom))}

\* C35: in Target placement mode with nothing selected, a click within the
\* snap radius of an existing target adds no target: the target list is
\* unchanged, the lowest-index unpaired gun (if any) is paired with the
\* nearest such target, guns, weapon ids and spotters stay, a snapshot of
\* the plan before the click is pushed and the placement mode becomes Gun.
C35_NearTargetClickPairsOnly ==
    (selected_marker = None /\ placement_mode = "Target" /\ ~panicked) =>
        \A click \in Points, zoom \in Zooms :
            NearTargets(St, click, zoom) # {} =>
                LET after == handle_marker_placement(St, click, zoom)
                    near == NearTargets(St, click, zoom)
                    D(ti) == Dist2(target_positions[ti + 1], click)
                IN  /\ after.target_positions = target_positions
                    /\ \E ti \in near :
                           /\ \A tj \in near : D(ti) <= D(tj)
                           /\ after.gun_target_indices =
                                  PairLowestUnpaired(gun_target_indices, ti)
                    /\ after.gun_positions = gun_positions
                    /\ after.gun_weapon_ids = gun_weapon_ids
                    /\ after.spotter_positions = spotter_positions
                    /\ after.undo_stack # <<>>
                    /\ Last(after.undo_stack) = PlanState
                    /\ Len(after.undo_stack) = Min(Len(undo_stack) + 1, UNDO_LIMIT)
                    /\ after.placement_mode = "Gun"
                    /\ after.selected_marker = None

\* A click near a target has paired the lowest unpaired gun with it: the
\* targets and guns are those of the snapshot pushed by the click, one
\* pairing that was None names the target, and the mode is Gun.
C35_Witness ==
    /\ undo_stack # <<>>
    /\ Last(undo_stack).target_positions = target_positions
    /\ target_positions # <<>>
    /\ Last(undo_stack).gun_positions = gun_positions
    /\ \E i \in 1..Len(gun_target_indices) :
           /\ Last(undo_stack).gun_target_indices[i] = None
           /\ \A j \in 1..(i - 1) : Last(undo_stack).gun_target_indices[j] # None
           /\ gun_target_indices[i] # None
           /\ \A j \in 1..Len(gun_target_indices) :
                  j # i => gun_target_indices[j] = Last(undo_stack).gun_target_indices[j]
    /\ placement_mode = "Gun"
    /\ selected_marker = None
    /\ redo_stack = <<>>

\* ---------------------------------------------------------------------
\* Frame conditions
\* ---------------------------------------------------------------------

\* The view transform of MapView: zoom and pan.
ViewTransform(v) == <<v.zoom, v.pan_x, v.pan_y>>

\* C36: a step that changes zoom or pan (wheel zoom, pinch zoom, pan by
\* mouse or finger, view reset) changes no marker list, weapon id, pairing,
\* wind value, selection or stack; and a step in which undo or redo takes
\* effect changes neither zoom nor pan.
C36_ViewAndPlanIndependent ==
    [][/\ ViewTransform(view') # ViewTransform(view) => UNCHANGED signals
       /\ (IsUndoStep \/ IsRedoStep) => ViewTransform(view') = ViewTransform(view)]_vars

\* The view is zoomed in and panned, a marker is placed and a placement
\* was undone: undo has acted on a transformed view, and the view has been
\* transformed with markers and snapshots in place.
C36_Witness ==
    /\ view.zoom > ZOOM_MIN
    /\ view.pan_x # 0
    /\ redo_stack # <<>>
    /\ undo_stack # <<>>

\* Guns, targets, weapon ids and pairings of s are those of the live plan.
PairingSideUntouched(s) ==
    /\ s.gun_positions = gun_positions
    /\ s.target_positions = target_positions
    /\ s.gun_weapon_ids = gun_weapon_ids
    /\ s.gun_target_indices = gun_target_indices

\* C37: placing a spotter, moving one and removing one (by right-click or
\* by Delete) leave gun positions, target positions, weapon ids and every
\* pairing entry as they were; a placement appends the spotter and leaves
\* the placement mode at Spotter.
C37_SpottersHaveNoPairingEffect ==
    ~panicked =>
        /\ (selected_marker = None /\ placement_mode = "Spotter") =>
               \A click \in Points, zoom \in Zooms :
                   LET after == handle_marker_placement(St, click, zoom)
                   IN  /\ PairingSideUntouched(after)
                       /\ after.spotter_positions = Append(spotter_positions, click)
                       /\ after.placement_mode = "Spotter"
        /\ (selected_marker # None /\ selected_marker[1].kind = "Spotter") =>
               /\ \A click \in Points, zoom \in Zooms :
                      LET after == handle_marker_placement(St, click, zoom)
                      IN  /\ PairingSideUntouched(after)
                          /\ after.spotter_positions =
                                 [spotter_positions EXCEPT ![selected_marker[1].index + 1] = click]
               /\ PairingSideUntouched(KeyDelete(St))
               /\ Len(KeyDelete(St).spotter_positions) = Len(spotter_positions) - 1
        /\ \A click \in Points, zoom \in Zooms :
               LET victim == RemovalVictim(St, click, zoom)
                   after == oncontextmenu(St, click, zoom)
               IN  (victim # None /\ victim[1][1] = "Spotter") =>
                       /\ PairingSideUntouched(after)
                       /\ Len(after.spotter_positions) = Len(spotter_positions) - 1

\* A spotter was placed next to paired guns: the snapshot pushed by the
\* click holds the same guns, targets and pairings and one spotter less,
\* and the mode is Spotter.
C37_Witness ==
    /\ undo_stack # <<>>
    /\ Last(undo_stack).spotter_positions = Front(spotter_positions)
    /\ spotter_positions # <<>>
    /\ Last(undo_stack).gun_target_indices = gun_target_indices
    /\ Last(undo_stack).gun_positions = gun_positions
    /\ Last(undo_stack).target_positions = target_positions
    /\ \E i \in 1..Len(gun_target_indices) : gun_target_indices[i] # None
    /\ \E i \in 1..Len(gun_target_indices) : gun_target_indices[i] = None
    /\ placement_mode = "Spotter"
    /\ redo_stack = <<>>

\* ---------------------------------------------------------------------
\* Operations that find nothing to act on
\* ---------------------------------------------------------------------

\* No marker of s lies strictly within the removal radius of click at zoom.
NothingNear(s, click, zoom) ==
    \A kind \in Kinds :
        \A j \in 1..Len(MarkerList(s, kind)) :
            ~Within(Dist2(MarkerList(s, kind)[j], click), Threshold(zoom))

\* C38: a right-click with no marker within the removal radius, Delete
\* with nothing selected, undo with an empty undo stack and redo with an
\* empty redo stack leave every signal of the planner (plan, wind,
\* selection, placement mode, both stacks) exactly as it was: nothing is
\* changed and no snapshot is pushed.
C38_NothingToActOnChangesNothing ==
    ~panicked =>
        /\ \A click \in Points, zoom \in Zooms :
               NothingNear(St, click, zoom) => oncontextmenu(St, click, zoom) = St
        /\ selected_marker = None => KeyDelete(St) = St
        /\ undo_stack = <<>> => KeyUndo(St) = St
        /\ redo_stack = <<>> => KeyRedo(St) = St

\* Markers are on the map, none of them within the removal radius of one
\* of the click positions, nothing is selected, a snapshot is on the undo
\* stack and none on the redo stack: the right-click there, Delete and redo
\* find nothing to act on.
C38_Witness ==
    /\ ~panicked
    /\ gun_positions # <<>>
    /\ spotter_positions # <<>>
    /\ selected_marker = None
    /\ undo_stack # <<>>
    /\ redo_stack = <<>>
    /\ \E click \in Points, zoom \in Zooms :
           /\ NothingNear(St, click, zoom)
           /\ oncontextmenu(St, click, zoom).undo_stack = undo_stack

\* ---------------------------------------------------------------------
\* Touch sequences with more than one finger
\* ---------------------------------------------------------------------

\* A step in which a finger comes down, moves, is lifted or is taken away.
TouchStep == view'.touches # view.touches

\* The Planner signals after a tap at point: one finger down on a screen
\* free of fingers, and up again without moving.
AfterTap(point) ==
    ontouchend(St, ontouchstart([view EXCEPT !.touches = <<point>>], <<point>>), 0)

\* The Planner signals after a click resolved at the container position
\* point, at the live view transform.
AfterResolvedClick(point) ==
    LET img == click_to_map_px_zoomed(view, point)
    IN  IF img = None THEN St ELSE handle_marker_placement(St, img[1], view.zoom)

\* C39: from the touchstart of a second finger until every finger is
\* lifted (or the sequence is cancelled) no touch event changes a signal of
\* the planner: no placement, move or pairing; once the screen is free of
\* fingers a tap with one finger acts as a click at its position, whatever
\* touch sequences came before; and after a touchcancel no tap is pending:
\* a later touchend does nothing.
C39_MultiTouchNeverPlaces ==
    /\ [][(TouchStep /\ (view.multi \/ view'.multi)) => UNCHANGED signals]_vars
    /\ [](view.touches = <<>> =>
              \A point \in {p \in FirstTouches : InRect(p)} :
                  AfterTap(point) = AfterResolvedClick(point))
    /\ [](view.touches # <<>> =>
              LET v == ontouchcancel([view EXCEPT !.touches = <<>>])
              IN  /\ v.touch_start_pos = None
                  /\ ontouchend(St, v, 0) = St)

\* Two fingers were on the screen and one of them is still down: the tap
\* of the first finger is no longer pending.
C39_Witness ==
    /\ view.multi
    /\ Len(view.touches) = 1
    /\ view.touch_start_pos = None
    /\ view.gestures = 2

====
